---------------------------- MODULE Spec2Model ----------------------------
(***************************************************************************)
(* MedMAP-AI matching and guardrail pipeline (backend/app).                *)
(*                                                                         *)
(* Text is modelled as a sequence of one-character strings, so that the    *)
(* regular expressions, whitespace handling and lowercasing of the source  *)
(* are computed character by character.  Python's None is the value None   *)
(* below.  Scores are fixed-point integers in units of 1e-5 (One = 1.0).   *)
(* An audit-log entry is the sequence of fragments of its format string.   *)
(***************************************************************************)
EXTENDS Integers, Sequences, FiniteSets, TLC

VARIABLES
    \* the deployment and its stores
    catalog,                \* ids of the rows of medicine_records
    history,                \* rows of prescriber_medicine_history
    pinecone_enabled,       \* PineconeAsyncio, api key and index name are all set
    dense_model,            \* search_service._dense_model: "None" or "loaded"
    sparse_encoder,         \* search_service._sparse_encoder: "None" or "loaded"
    \* one run of extract_route
    payload,                \* the request
    pc,                     \* where the handler stands
    guardrail_logs,         \* the request-level log
    raw_ai_extracted_items, \* what extract_medicines returned
    index,                  \* enumerate(..., start=1)
    item_guardrail_logs,    \* the log of the mention being processed
    pre_guardrailed,        \* the normalized mention
    top_candidate,          \* what query_top_candidate returned
    processed_medicines,    \* the results so far
    response,               \* what the caller receives
    cached_response,        \* what get_cached_extraction_response returned
    \* bookkeeping of the run, read by the properties only
    branches,               \* the terminal branch of each processed mention
    candidates,             \* the candidate each processed mention was given
    retrieval,              \* what the last query_top_candidate call met
    deletes,                \* catalog rows removed by the ingestion process
    \* function-level runs
    unit_pc,    \* position of the function-level runs ("idle" in the pipeline)
    nm_in,      \* mention handed to apply_pre_match_guardrails
    nm_once,    \* its result
    nm_twice,   \* the result of applying it to nm_once
    nm_logs,    \* guardrail_logs after the first application
    pm_in,      \* (extracted, candidate, db_record) handed to apply_post_match_guardrails
    pm_out,     \* its result
    pm_logs,    \* the entries it appended to guardrail_logs
    pp_in,      \* (candidate, prescriber_id, history rows) handed to _apply_prescriber_prior
    pp_out,     \* its result
    pp_logs,    \* the entries it appended to guardrail_logs
    fb_in,      \* (extracted, rows of medicine_records) handed to _local_sqlite_fallback
    fb_out,     \* its result
    fb_queried, \* the terms it ran its SELECT for, in order
    enc_lib,    \* whether SentenceTransformer / BM25Encoder were imported
    enc_events  \* the calls of _get_dense_model / _get_sparse_encoder so far

deployment_vars == <<catalog, history, pinecone_enabled, dense_model, sparse_encoder>>
route_vars == <<payload, cached_response, pc, guardrail_logs, raw_ai_extracted_items, index,
                item_guardrail_logs, pre_guardrailed, top_candidate,
                processed_medicines, response, branches, candidates, retrieval,
                deletes>>
norm_vars == <<unit_pc, nm_in, nm_once, nm_twice, nm_logs>>
guard_vars == <<pm_in, pm_out, pm_logs>>
prior_vars == <<pp_in, pp_out, pp_logs>>
fallback_vars == <<fb_in, fb_out, fb_queried>>
encoder_vars == <<enc_lib, enc_events>>
unit_vars == <<norm_vars, guard_vars, prior_vars, fallback_vars, encoder_vars>>

vars == <<deployment_vars, route_vars, unit_vars>>

-----------------------------------------------------------------------------
(* Text primitives *)

None == <<"None">>

UpperChars == <<"A","B","C","D","E","F","G","H","I","J","K","L","M",
                "N","O","P","Q","R","S","T","U","V","W","X","Y","Z">>
LowerChars == <<"a","b","c","d","e","f","g","h","i","j","k","l","m",
                "n","o","p","q","r","s","t","u","v","w","x","y","z">>

DigitSet == {"0","1","2","3","4","5","6","7","8","9"}
UpperSet == { UpperChars[i] : i \in 1..Len(UpperChars) }
LowerSet == { LowerChars[i] : i \in 1..Len(LowerChars) }
UpperToLower ==
    [ c \in UpperSet |-> LowerChars[CHOOSE i \in 1..Len(UpperChars) : UpperChars[i] = c] ]

IsDigit(c) == c \in DigitSet
IsUpper(c) == c \in UpperSet
IsLower(c) == c \in LowerSet
IsAlpha(c) == IsUpper(c) \/ IsLower(c)
IsWord(c) == IsDigit(c) \/ IsAlpha(c) \/ c = "_"
IsSpace(c) == c \in {" ", "\t"}

LowerChar(c) == IF IsUpper(c) THEN UpperToLower[c] ELSE c

\* str.lower()
lower(s) == [i \in 1..Len(s) |-> LowerChar(s[i])]

\* Python truthiness of an Optional[str]
Truthy(v) == v # None /\ v # <<>>

\* (value or "")
OrEmpty(v) == IF v = None THEN <<>> ELSE v

RECURSIVE SplitFrom(_, _, _, _)
SplitFrom(s, i, cur, acc) ==
    IF i > Len(s)
    THEN (IF cur = <<>> THEN acc ELSE Append(acc, cur))
    ELSE IF IsSpace(s[i])
         THEN SplitFrom(s, i + 1, <<>>, IF cur = <<>> THEN acc ELSE Append(acc, cur))
         ELSE SplitFrom(s, i + 1, Append(cur, s[i]), acc)

\* str.split(): the maximal runs of non-whitespace characters
split(s) == SplitFrom(s, 1, <<>>, <<>>)

RECURSIVE join(_, _)
\* sep.join(parts)
join(sep, parts) ==
    IF parts = <<>> THEN <<>>
    ELSE IF Len(parts) = 1 THEN parts[1]
    ELSE parts[1] \o sep \o join(sep, Tail(parts))

\* " ".join((value or "").split()).strip()
_normalize_spaces(value) == join(<<" ">>, split(OrEmpty(value)))

RECURSIVE lstrip(_)
lstrip(s) == IF s # <<>> /\ IsSpace(s[1]) THEN lstrip(Tail(s)) ELSE s

RECURSIVE rstrip(_)
rstrip(s) ==
    IF s # <<>> /\ IsSpace(s[Len(s)]) THEN rstrip(SubSeq(s, 1, Len(s) - 1)) ELSE s

\* str.strip()
strip(s) == lstrip(rstrip(s))

\* first index j >= i at which the run of digits starting at i ends
DigitEnd(s, i) ==
    CHOOSE j \in i..(Len(s) + 1) :
        /\ \A k \in i..(j - 1) : IsDigit(s[k])
        /\ (j = Len(s) + 1 \/ ~IsDigit(s[j]))

\* first index j >= i at which the run of ASCII letters starting at i ends
AlphaEnd(s, i) ==
    CHOOSE j \in i..(Len(s) + 1) :
        /\ \A k \in i..(j - 1) : IsAlpha(s[k])
        /\ (j = Len(s) + 1 \/ ~IsAlpha(s[j]))

RECURSIVE FindDigitRuns(_, _, _)
FindDigitRuns(s, i, acc) ==
    IF i > Len(s) THEN acc
    ELSE IF IsDigit(s[i])
         THEN FindDigitRuns(s, DigitEnd(s, i),
                            Append(acc, SubSeq(s, i, DigitEnd(s, i) - 1)))
         ELSE FindDigitRuns(s, i + 1, acc)

\* re.findall(r"\d+", value or "")
_extract_numeric_tokens(value) == FindDigitRuns(OrEmpty(value), 1, <<>>)

\* End (exclusive) of a match of \b\d+[a-zA-Z]*\b starting at i, or 0 when the
\* pattern does not match there.  Both runs are greedy and giving characters
\* back never produces a word boundary, so the match is decided by the
\* character that follows the greedy runs.
NumericTokenEnd(s, i) ==
    IF IsDigit(s[i]) /\ (i = 1 \/ ~IsWord(s[i - 1]))
    THEN LET e == AlphaEnd(s, DigitEnd(s, i))
         IN IF e = Len(s) + 1 \/ ~IsWord(s[e]) THEN e ELSE 0
    ELSE 0

RECURSIVE SubNumericFrom(_, _, _)
SubNumericFrom(s, i, acc) ==
    IF i > Len(s) THEN acc
    ELSE IF NumericTokenEnd(s, i) > 0
         THEN SubNumericFrom(s, NumericTokenEnd(s, i), Append(acc, " "))
         ELSE SubNumericFrom(s, i + 1, Append(acc, s[i]))

RECURSIVE SubNumericFirstOnly(_, _, _)
\* re.sub(..., count=1): only the leftmost token is replaced
SubNumericFirstOnly(s, i, acc) ==
    IF i > Len(s) THEN acc
    ELSE IF NumericTokenEnd(s, i) > 0
         THEN Append(acc, " ") \o SubSeq(s, NumericTokenEnd(s, i), Len(s))
         ELSE SubNumericFirstOnly(s, i + 1, Append(acc, s[i]))

StripFirstNumericToken(raw_brand) == SubNumericFirstOnly(raw_brand, 1, <<>>)

\* re.sub(r"\b\d+[a-zA-Z]*\b", " ", raw_brand)
brand_without_numeric(raw_brand) == SubNumericFrom(raw_brand, 1, <<>>)

-----------------------------------------------------------------------------
(* Literals of the source *)

S_tab == <<"t", "a", "b">>
S_tablet == <<"t", "a", "b", "l", "e", "t">>
S_cap == <<"c", "a", "p">>
S_caps == <<"c", "a", "p", "s">>
S_capsule == <<"c", "a", "p", "s", "u", "l", "e">>
S_syp == <<"s", "y", "p">>
S_syr == <<"s", "y", "r">>
S_syrup == <<"s", "y", "r", "u", "p">>
S_bd == <<"b", "d">>
S_bid == <<"b", "i", "d">>
S_tid == <<"t", "i", "d">>
S_od == <<"o", "d">>
S_2_times_per_day == <<"2", " ", "t", "i", "m", "e", "s", " ", "p", "e", "r", " ", "d", "a", "y">>
S_3_times_per_day == <<"3", " ", "t", "i", "m", "e", "s", " ", "p", "e", "r", " ", "d", "a", "y">>
S_1_time_per_day == <<"1", " ", "t", "i", "m", "e", " ", "p", "e", "r", " ", "d", "a", "y">>
S_unknown == <<"u", "n", "k", "n", "o", "w", "n">>

FORM_MAP ==
    { <<S_tab, S_tablet>>, <<S_tablet, S_tablet>>,
      <<S_cap, S_capsule>>, <<S_caps, S_capsule>>, <<S_capsule, S_capsule>>,
      <<S_syp, S_syrup>>, <<S_syr, S_syrup>>, <<S_syrup, S_syrup>> }

FREQUENCY_MAP ==
    { <<S_bd, S_2_times_per_day>>, <<S_bid, S_2_times_per_day>>,
      <<S_tid, S_3_times_per_day>>, <<S_od, S_1_time_per_day>> }

\* An audit-log entry is the sequence of the fragments of its (f-)string; a
\* literal entry has one fragment.
L(text) == <<text>>

DigitChars == <<"0","1","2","3","4","5","6","7","8","9">>

RECURSIVE NatText(_)
NatText(n) ==
    IF n < 10 THEN <<DigitChars[n + 1]>>
    ELSE NatText(n \div 10) \o <<DigitChars[(n % 10) + 1]>>

\* str(n), the text of an integer formatted into a log entry
IntText(n) == IF n < 0 THEN <<"-">> \o NatText(0 - n) ELSE NatText(n)

\* dict.get(key, default)
dict_get(map, key, default) ==
    IF \E p \in map : p[1] = key
    THEN (CHOOSE p \in map : p[1] = key)[2]
    ELSE default

-----------------------------------------------------------------------------
(* schemas.ExtractedData *)

\* field validator of brand: " ".join(value.split())
normalize_brand(value) == join(<<" ">>, split(value))

\* ExtractedData(raw_input=..., brand=..., variant=..., ...): the constructor
\* runs normalize_brand on the brand
ExtractedMedicine(raw_input, brand, variant, generic_name, strength, form, frequency) ==
    [ raw_input    |-> raw_input,
      brand        |-> normalize_brand(brand),
      variant      |-> variant,
      generic_name |-> generic_name,
      strength     |-> strength,
      form         |-> form,
      frequency    |-> frequency ]

NoMention == ExtractedMedicine(<<>>, <<>>, None, None, None, None, None)

-----------------------------------------------------------------------------
(* guardrail_service.apply_pre_match_guardrails *)

raw_brand(extracted) == _normalize_spaces(extracted.brand)

\* line 41 taking the last numeric token of the brand
detected_variant_last_token(extracted) ==
    IF extracted.variant = None /\ _extract_numeric_tokens(raw_brand(extracted)) # <<>>
    THEN _extract_numeric_tokens(raw_brand(extracted))[
             Len(_extract_numeric_tokens(raw_brand(extracted)))]
    ELSE extracted.variant

detected_variant(extracted) ==
    IF extracted.variant = None /\ _extract_numeric_tokens(raw_brand(extracted)) # <<>>
    THEN _extract_numeric_tokens(raw_brand(extracted))[1]
    ELSE extracted.variant

normalized_brand(extracted) ==
    LET stripped == lower(_normalize_spaces(brand_without_numeric(raw_brand(extracted))))
    IN IF stripped # <<>> THEN stripped ELSE lower(raw_brand(extracted))

raw_form(extracted) == _normalize_spaces(OrEmpty(extracted.form))
raw_frequency(extracted) == _normalize_spaces(OrEmpty(extracted.frequency))

normalized_form(extracted) ==
    dict_get(FORM_MAP, lower(raw_form(extracted)),
             IF raw_form(extracted) # <<>> THEN lower(raw_form(extracted)) ELSE None)

normalized_frequency(extracted) ==
    dict_get(FREQUENCY_MAP, lower(raw_frequency(extracted)),
             IF raw_frequency(extracted) # <<>> THEN lower(raw_frequency(extracted)) ELSE None)

normalized_generic(extracted) ==
    IF Truthy(extracted.generic_name) THEN lower(extracted.generic_name) ELSE None

\* the entries apply_pre_match_guardrails appends to guardrail_logs, in order
pre_match_logs(extracted) ==
    (IF extracted.variant = None /\ _extract_numeric_tokens(raw_brand(extracted)) # <<>>
     THEN <<L("Variant token stripped")>> ELSE <<>>)
    \o (IF Truthy(extracted.form) /\ normalized_form(extracted) # lower(extracted.form)
        THEN <<L("Normalization rule applied for dosage form")>> ELSE <<>>)
    \o (IF Truthy(extracted.frequency)
           /\ normalized_frequency(extracted) # lower(extracted.frequency)
        THEN <<L("Normalization rule applied for frequency")>> ELSE <<>>)
    \o (IF extracted.brand # normalized_brand(extracted)
           \/ extracted.generic_name # normalized_generic(extracted)
        THEN <<L("Normalization rule applied: lowercased extraction fields")>> ELSE <<>>)
    \o (IF Truthy(detected_variant(extracted)) /\ extracted.strength # None
        THEN <<L("Variant separation enforced: extracted strength cleared to prevent hallucinated mapping")>>
        ELSE <<>>)

\* lines 64-72 with line 69 passing extracted.strength on whatever the variant
apply_pre_match_keeping_strength(extracted) ==
    ExtractedMedicine(
        extracted.raw_input,
        normalized_brand(extracted),
        detected_variant(extracted),
        normalized_generic(extracted),
        extracted.strength,
        normalized_form(extracted),
        normalized_frequency(extracted))

apply_pre_match_guardrails(extracted) ==
    ExtractedMedicine(
        extracted.raw_input,
        normalized_brand(extracted),
        detected_variant(extracted),
        normalized_generic(extracted),
        IF Truthy(detected_variant(extracted)) THEN None ELSE extracted.strength,
        normalized_form(extracted),
        normalized_frequency(extracted))

-----------------------------------------------------------------------------
(* Scores: fixed-point, One = 1.0 *)

One == 100000

Min(a, b) == IF a < b THEN a ELSE b
Max(a, b) == IF a > b THEN a ELSE b

\* round(score, 4) of a score in [0, 1]: to the nearest multiple of 1e-4,
\* a tie going to the even one
round4(score) ==
    LET r == score % 10
        down == score - r
    IN IF r < 5 THEN down
       ELSE IF r > 5 THEN down + 10
       ELSE IF (down \div 10) % 2 = 0 THEN down ELSE down + 10

-----------------------------------------------------------------------------
(* schemas.CandidateMatch, schemas.MatchedMedicine, sql_models.MedicineRecord *)

CandidateMatch(id, score, metadata) ==
    [ id |-> id, score |-> score, metadata |-> metadata ]

MatchedMedicine(id, brand_name, generic_name, official_strength, form, combination_flag, final_similarity_score, risk_classification, clinical_risk_tier, manual_review_required) ==
    [ id |-> id,
      brand_name |-> brand_name,
      generic_name |-> generic_name,
      official_strength |-> official_strength,
      form |-> form,
      combination_flag |-> combination_flag,
      final_similarity_score |-> final_similarity_score,
      risk_classification |-> risk_classification,
      clinical_risk_tier |-> clinical_risk_tier,
      manual_review_required |-> manual_review_required ]

MedicineRecord(id, brand_name, generic_name, official_strength, form, combination_flag) ==
    [ id |-> id,
      brand_name |-> brand_name,
      generic_name |-> generic_name,
      official_strength |-> official_strength,
      form |-> form,
      combination_flag |-> combination_flag ]

-----------------------------------------------------------------------------
(* guardrail_service._classify_risk, apply_post_match_guardrails *)

HighThreshold == 85000
MediumThreshold == 65000
VariantMismatchPenalty == 35000
VariantMissingPenalty == 15000
FormMismatchPenalty == 30000

\* _classify_risk with its last line returning ("Low", False)
classify_risk_low_unflagged(score) ==
    IF score >= HighThreshold THEN <<"High", FALSE>>
    ELSE IF score >= MediumThreshold THEN <<"Medium", FALSE>>
    ELSE <<"Low", FALSE>>

\* _classify_risk(score) -> (risk, manual_review)
_classify_risk(score) ==
    IF score >= HighThreshold THEN <<"High", FALSE>>
    ELSE IF score >= MediumThreshold THEN <<"Medium", FALSE>>
    ELSE <<"Low", TRUE>>

extracted_variant(extracted) == strip(OrEmpty(extracted.variant))

db_variant(db_record) ==
    IF _extract_numeric_tokens(db_record.brand_name) # <<>>
    THEN _extract_numeric_tokens(db_record.brand_name)[1]
    ELSE <<>>

\* lines 98-103 with 0.35 subtracted on both branches
variant_penalty_flat(extracted, db_record) ==
    IF extracted_variant(extracted) # <<>> THEN VariantMismatchPenalty ELSE 0

variant_penalty(extracted, db_record) ==
    IF extracted_variant(extracted) # <<>> /\ db_variant(db_record) # <<>>
       /\ extracted_variant(extracted) # db_variant(db_record)
    THEN VariantMismatchPenalty
    ELSE IF extracted_variant(extracted) # <<>> /\ db_variant(db_record) = <<>>
    THEN VariantMissingPenalty
    ELSE 0

db_form(db_record) == lower(OrEmpty(db_record.form))

\* line 106 comparing extracted.form with db_record.form as written
form_penalty_case_sensitive(extracted, db_record) ==
    IF Truthy(extracted.form) /\ Truthy(db_record.form)
       /\ extracted.form # db_record.form
    THEN FormMismatchPenalty
    ELSE 0

form_penalty(extracted, db_record) ==
    IF Truthy(extracted.form) /\ db_form(db_record) # <<>>
       /\ lower(extracted.form) # db_form(db_record)
    THEN FormMismatchPenalty
    ELSE 0

\* line 120 without its max(0.0, ...)
clamp_without_floor(score) == Min(One, score)

\* score = max(0.0, min(1.0, score))
clamp(score) == Max(0, Min(One, score))

penalised_score(extracted, candidate, db_record) ==
    candidate.score - variant_penalty(extracted, db_record)
                    - form_penalty(extracted, db_record)

\* the score that is classified and then rounded into the result
post_match_score(extracted, candidate, db_record) ==
    clamp(penalised_score(extracted, candidate, db_record))

post_match_logs(extracted, candidate, db_record) ==
    << <<"Post-match comparison executed: Pinecone candidate ">> \o IntText(candidate.id)
       \o <<" checked against SQLite record ">> \o IntText(db_record.id) >>
    \o (IF variant_penalty(extracted, db_record) > 0
        THEN <<L("Variant mismatch penalty applied")>> ELSE <<>>)
    \o (IF form_penalty(extracted, db_record) > 0
        THEN <<L("Form mismatch penalty applied")>>
        ELSE IF Truthy(extracted.form) /\ db_form(db_record) = <<>>
        THEN <<L("Form comparison skipped: database record has no form value")>>
        ELSE <<>>)
    \o (IF db_record.combination_flag
        THEN <<L("Combination lock enforced"),
               L("Generic splitting blocked due to combination_flag=True")>>
        ELSE <<>>)
    \o <<L("Official strength injected"),
         L("AI extracted strength overwritten with SQLite official_strength")>>
    \o << <<"Confidence classification computed: ",
            _classify_risk(post_match_score(extracted, candidate, db_record))[1]>> >>
    \o (IF _classify_risk(post_match_score(extracted, candidate, db_record))[2]
        THEN <<L("Risk-based routing: Manual Review Required")>> ELSE <<>>)

\* lines 116, 130 with the mention's strength kept when it has one
apply_post_match_keeping_strength(extracted, candidate, db_record) ==
    LET score == post_match_score(extracted, candidate, db_record)
        risk == _classify_risk(score)[1]
        manual_review == _classify_risk(score)[2]
    IN MatchedMedicine(
           db_record.id,
           db_record.brand_name,
           db_record.generic_name,
           IF Truthy(extracted.strength) THEN extracted.strength
           ELSE db_record.official_strength,
           IF Truthy(db_record.form) THEN db_record.form ELSE S_unknown,
           db_record.combination_flag,
           round4(score),
           risk,
           risk,
           manual_review)

apply_post_match_guardrails(extracted, candidate, db_record) ==
    LET score == post_match_score(extracted, candidate, db_record)
        risk == _classify_risk(score)[1]
        manual_review == _classify_risk(score)[2]
    IN MatchedMedicine(
           db_record.id,
           db_record.brand_name,
           db_record.generic_name,
           db_record.official_strength,
           IF Truthy(db_record.form) THEN db_record.form ELSE S_unknown,
           db_record.combination_flag,
           round4(score),
           risk,
           risk,
           manual_review)

-----------------------------------------------------------------------------
(* The catalog (medicine_records) and the history table the runs read *)

B_Augmentin_625_Duo == <<"A", "u", "g", "m", "e", "n", "t", "i", "n", " ", "6", "2", "5", " ", "D", "u", "o">>
B_Amoxiclav_500_125 == <<"A", "m", "o", "x", "i", "c", "l", "a", "v", " ", "5", "0", "0", "/", "1", "2", "5">>
B_Calpol_250mg_5ml == <<"C", "a", "l", "p", "o", "l", " ", "2", "5", "0", "m", "g", "/", "5", "m", "l">>
S_co_amoxiclav == <<"c", "o", "-", "a", "m", "o", "x", "i", "c", "l", "a", "v">>
S_paracetamol == <<"p", "a", "r", "a", "c", "e", "t", "a", "m", "o", "l">>
S_625_mg == <<"6", "2", "5", " ", "m", "g">>
S_500_125_mg == <<"5", "0", "0", "/", "1", "2", "5", " ", "m", "g">>
S_250_mg_5_ml == <<"2", "5", "0", " ", "m", "g", "/", "5", " ", "m", "l">>
S_dr_1 == <<"d", "r", "-", "1">>

\* a catalog of three of the rows of db_setup.SAMPLE_MEDICINES (lines 18, 20
\* and 24), numbered in insertion order
SAMPLE_MEDICINES ==
    << MedicineRecord(1, B_Augmentin_625_Duo, S_co_amoxiclav, S_625_mg, S_tablet, TRUE),
       MedicineRecord(2, B_Amoxiclav_500_125, S_co_amoxiclav, S_500_125_mg, S_tablet, TRUE),
       MedicineRecord(3, B_Calpol_250mg_5ml, S_paracetamol, S_250_mg_5_ml, S_syrup, FALSE) >>

RecordIds == 1..Len(SAMPLE_MEDICINES)

\* the history row seed_db inserts: ("dr-1", Augmentin 625 Duo, 5)
SeedHistory ==
    { [prescriber_id |-> S_dr_1, medicine_id |-> 1, mapping_count |-> 5] }

-----------------------------------------------------------------------------
(* search_service *)

NO_MATCH_ID == -1
FallbackScore == 78000
BoostPerMapping == 3000
MaxBoost == 15000

\* whether needle occurs in hay as a contiguous run
Contains(hay, needle) ==
    \E i \in 1..(Len(hay) - Len(needle) + 1) :
        SubSeq(hay, i, i + Len(needle) - 1) = needle

RECURSIVE like(_, _)
\* text LIKE pattern: % stands for any run of characters, _ for any one
\* character (line 122 passes the term into the pattern unescaped)
like(text, pattern) ==
    IF pattern = <<>> THEN text = <<>>
    ELSE IF pattern[1] = "%"
    THEN like(text, Tail(pattern)) \/ (text # <<>> /\ like(Tail(text), pattern))
    ELSE /\ text # <<>>
         /\ pattern[1] = "_" \/ pattern[1] = text[1]
         /\ like(Tail(text), Tail(pattern))

\* column.ilike(f"%{term}%"): lower(column) LIKE lower('%term%')
ilike(column, term) == like(lower(column), <<"%">> \o lower(term) \o <<"%">>)

RECURSIVE AppendLongTokens(_, _)
\* for token in brand.lower().split(): if len(token) > 3 and token not in search_terms
AppendLongTokens(tokens, search_terms) ==
    IF tokens = <<>> THEN search_terms
    ELSE AppendLongTokens(
             Tail(tokens),
             IF Len(tokens[1]) > 3 /\ ~(\E i \in 1..Len(search_terms) : search_terms[i] = tokens[1])
             THEN Append(search_terms, tokens[1])
             ELSE search_terms)

search_terms(extracted) ==
    AppendLongTokens(
        split(lower(OrEmpty(extracted.brand))),
        (IF Truthy(extracted.brand) /\ lower(extracted.brand) # S_unknown
         THEN <<lower(extracted.brand)>> ELSE <<>>)
        \o (IF Truthy(extracted.generic_name)
            THEN <<lower(extracted.generic_name)>> ELSE <<>>))

\* select(MedicineRecord).where(brand_name ilike | generic_name ilike)
\*   .order_by(MedicineRecord.id).limit(1): the id of the row, or 0 for no row
first_record_containing(term, records) ==
    LET hits == { id \in records :
                    \/ ilike(SAMPLE_MEDICINES[id].brand_name, term)
                    \/ ilike(SAMPLE_MEDICINES[id].generic_name, term) }
    IN IF hits = {} THEN 0 ELSE CHOOSE id \in hits : \A other \in hits : id <= other

RECURSIVE FallbackFrom(_, _)
FallbackFrom(terms, records) ==
    IF terms = <<>>
    THEN CandidateMatch(NO_MATCH_ID, 0, <<"vlm_only", <<>> >>)
    ELSE IF terms[1] # <<>> /\ first_record_containing(terms[1], records) # 0
    THEN CandidateMatch(first_record_containing(terms[1], records), FallbackScore,
                        <<"sqlite_fallback", terms[1]>>)
    ELSE FallbackFrom(Tail(terms), records)

RECURSIVE QueriedFrom(_, _)
\* lines 116-130: the terms the SELECT is run for, up to the first hit
QueriedFrom(terms, records) ==
    IF terms = <<>> THEN <<>>
    ELSE IF terms[1] = <<>> THEN QueriedFrom(Tail(terms), records)
    ELSE IF first_record_containing(terms[1], records) # 0 THEN <<terms[1]>>
    ELSE <<terms[1]>> \o QueriedFrom(Tail(terms), records)

\* _local_sqlite_fallback(extracted, session); records: the ids in the table
_local_sqlite_fallback(extracted, records) ==
    FallbackFrom(search_terms(extracted), records)

\* select(mapping_count).where(prescriber_id == ..).where(medicine_id == ..).limit(1):
\* the count, or -1 for no row (scalar_one_or_none() is None)
mapping_count(rows, prescriber_id, medicine_id) ==
    LET hits == { r \in rows : r.prescriber_id = prescriber_id
                               /\ r.medicine_id = medicine_id }
    IN IF hits = {} THEN -1 ELSE (CHOOSE r \in hits : TRUE).mapping_count

\* line 156 without its min(0.15, ...)
boost_uncapped(count) == BoostPerMapping * count

boost(count) == Min(MaxBoost, BoostPerMapping * count)

\* _apply_prescriber_prior: the candidate returned
_apply_prescriber_prior(candidate, prescriber_id, rows) ==
    IF ~Truthy(prescriber_id) THEN candidate
    ELSE IF mapping_count(rows, prescriber_id, candidate.id) = -1 THEN candidate
    ELSE CandidateMatch(
             candidate.id,
             Min(One, candidate.score
                      + boost(mapping_count(rows, prescriber_id, candidate.id))),
             candidate.metadata)

\* round(boost, 4) as Python prints it: 0.03, 0.06, ..., 0.15
BoostText(b) ==
    IF b = 0 THEN <<"0", ".", "0">>
    ELSE <<"0", ".">> \o (IF b < 10000 THEN <<"0">> ELSE <<>>)
         \o (IF (b \div 1000) % 10 = 0 THEN NatText(b \div 10000)
             ELSE NatText(b \div 1000))

\* _apply_prescriber_prior: the entries it appends to guardrail_logs
prescriber_prior_logs(candidate, prescriber_id, rows) ==
    IF ~Truthy(prescriber_id) THEN <<>>
    ELSE IF mapping_count(rows, prescriber_id, candidate.id) = -1
    THEN <<L("Bayesian prescriber prior: no historical mapping found")>>
    ELSE << <<"Bayesian prescriber prior applied: +">>
            \o BoostText(boost(mapping_count(rows, prescriber_id, candidate.id)))
            \o <<" score boost from history">> >>

\* _get_dense_model() / _get_sparse_encoder(): the global after the call.
\* load_ok: the library was imported and its constructor (and, for BM25, fit)
\* returned instead of raising.
get_encoder(global, load_ok) ==
    IF global = "None"
    THEN (IF load_ok THEN "loaded" ELSE "None")
    ELSE global

\* What the vector index does with one query (lines 199-227):
\*   no_host     describe_index gives no host: RuntimeError (line 207)
\*   query_error describe_index or index.query raises
\*   bad_match   the top match has no integer id: int(...) raises (line 225)
\*   no_match    the query returns no matches
\*   match       the top match is (id, score)
PineconeFails(outcome) == outcome.kind \in {"no_host", "query_error", "bad_match"}

\* query_top_candidate from the sparse-encoder step on is decided by:
\*   env.dense_encode, env.sparse_encode \in {"ok", "raise"}
\*   env.pinecone: the outcome of the vector index, when it is queried
\* dense, sparse: the encoder globals after _get_dense_model/_get_sparse_encoder
\* enabled: PineconeAsyncio is not None and the api key and index name are set
encoders_raise(dense, sparse, env) ==
    \/ dense = "loaded" /\ env.dense_encode = "raise"
    \/ sparse = "loaded" /\ env.sparse_encode = "raise"

encoder_logs(dense, sparse) ==
    << IF dense = "loaded"
       THEN L("Dense vector generated using all-MiniLM-L6-v2")
       ELSE L("Dense vector generated using deterministic fallback embedding"),
       IF sparse = "loaded"
       THEN L("Sparse vector generated using BM25 encoder")
       ELSE L("Sparse encoder unavailable: lexical sparse component skipped") >>

\* line 235 without the check that the id is in medicine_records
pinecone_hit_unverified(enabled, outcome, records) ==
    enabled /\ outcome.kind = "match"

\* the verified vector-index candidate is returned (line 242)
pinecone_hit(enabled, outcome, records) ==
    enabled /\ outcome.kind = "match" /\ outcome.id \in records

pinecone_logs(enabled, outcome, records) ==
    IF ~enabled \/ outcome.kind = "no_match" THEN <<>>
    ELSE IF PineconeFails(outcome)
    THEN <<L("Pinecone unavailable: deterministic SQLite fallback engaged")>>
    ELSE IF outcome.id \in records
    THEN <<L("Pinecone async hybrid query executed")>>
    ELSE << <<"Pinecone returned stale id=">> \o IntText(outcome.id)
            \o <<" not in SQLite -- falling back to local search">> >>

\* the except branch of line 247 returning the sentinel instead of falling
\* through to the local search
tier_candidate_sentinel_on_error(extracted, enabled, outcome, records) ==
    IF enabled /\ PineconeFails(outcome)
    THEN CandidateMatch(NO_MATCH_ID, 0, <<"vlm_only", <<>> >>)
    ELSE IF pinecone_hit(enabled, outcome, records)
    THEN CandidateMatch(outcome.id, outcome.score, <<"pinecone", <<>> >>)
    ELSE _local_sqlite_fallback(extracted, records)

\* the candidate before the prescriber prior
tier_candidate(extracted, enabled, outcome, records) ==
    IF pinecone_hit(enabled, outcome, records)
    THEN CandidateMatch(outcome.id, outcome.score, <<"pinecone", <<>> >>)
    ELSE _local_sqlite_fallback(extracted, records)

\* query_top_candidate, when neither encoder raises: the candidate returned
\* and the entries appended to guardrail_logs
query_top_candidate(extracted, dense, sparse, enabled, outcome, records, prescriber_id, rows) ==
    LET tier == tier_candidate(extracted, enabled, outcome, records)
    IN [ candidate |-> _apply_prescriber_prior(tier, prescriber_id, rows),
         logs |-> encoder_logs(dense, sparse)
                  \o pinecone_logs(enabled, outcome, records)
                  \o (IF pinecone_hit(enabled, outcome, records) THEN <<>>
                      ELSE <<L("Hybrid retrieval fallback: SQLite candidate selected")>>)
                  \o prescriber_prior_logs(tier, prescriber_id, rows) ]

\* "no row": what stands for None where a MedicineRecord is expected
NoRecord == MedicineRecord(0, None, None, None, None, FALSE)

\* line 256 without its where clause on the id: the last row of the table
get_medicine_by_id_last_row(record_id, records) ==
    IF record_id \in records
    THEN SAMPLE_MEDICINES[CHOOSE id \in records : \A other \in records : other <= id]
    ELSE NoRecord

\* get_medicine_by_id(record_id, session): the row, or NoRecord for None
get_medicine_by_id(record_id, records) ==
    IF record_id \in records THEN SAMPLE_MEDICINES[record_id] ELSE NoRecord

-----------------------------------------------------------------------------
(* api/routes.extract_route *)

OrUnknown(v) == IF Truthy(v) THEN v ELSE S_unknown

\* lines 64-75 without manual_review_required=True: the field's default, False
vlm_matched_default_review(mention) ==
    MatchedMedicine(0,
                    OrUnknown(mention.brand),
                    OrUnknown(mention.generic_name),
                    OrUnknown(mention.strength),
                    OrUnknown(mention.form),
                    FALSE, 0, "High", "High", FALSE)

\* lines 64-75: the result of the NoMatch branch
vlm_matched_no_match(mention) ==
    MatchedMedicine(0,
                    OrUnknown(mention.brand),
                    OrUnknown(mention.generic_name),
                    OrUnknown(mention.strength),
                    OrUnknown(mention.form),
                    FALSE, 0, "High", "High", TRUE)

\* lines 97-108 with the mention's brand passed on without the "unknown" default
\* and the risk label of a zero score
vlm_matched_stale_low(mention) ==
    MatchedMedicine(0,
                    mention.brand,
                    OrUnknown(mention.generic_name),
                    OrUnknown(mention.strength),
                    OrUnknown(mention.form),
                    FALSE, 0, "Low", "Low", TRUE)

\* lines 97-108: the result of the StaleId branch
vlm_matched_stale_id(mention) ==
    MatchedMedicine(0,
                    OrUnknown(mention.brand),
                    OrUnknown(mention.generic_name),
                    OrUnknown(mention.strength),
                    OrUnknown(mention.form),
                    FALSE, 0, "High", "High", TRUE)

ProcessedMedicine(original_raw_input, extracted, matched_medicine, logs) ==
    [ original_raw_input |-> original_raw_input,
      extracted |-> extracted,
      matched_medicine |-> matched_medicine,
      guardrail_logs |-> logs ]

\* "entry" / "entries"
Entries(n) == IF n = 1 THEN "y" ELSE "ies"

-----------------------------------------------------------------------------
(* Inputs of the function-level runs *)

MaxBrandLen == 3

BrandAlphabet == {"a", "B", "1", " ", "/"}

RECURSIVE TextsUpTo(_, _)
TextsUpTo(alphabet, n) ==
    IF n = 0 THEN { <<>> }
    ELSE LET shorter == TextsUpTo(alphabet, n - 1)
         IN shorter \cup { Append(t, c) : t \in { u \in shorter : Len(u) = n - 1 },
                                          c \in alphabet }

B_Augmentin_625 == <<"A", "u", "g", "m", "e", "n", "t", "i", "n", " ", "6", "2", "5">>
B_Panadol_500mg == <<"P", "a", "n", "a", "d", "o", "l", " ", "5", "0", "0", "m", "g">>
S_625 == <<"6", "2", "5">>
S_augmentin == <<"a", "u", "g", "m", "e", "n", "t", "i", "n">>
S_500_125 == <<"5", "0", "0", "/", "1", "2", "5">>
S_Tab == <<"T", "a", "b">>
S_Gel == <<"G", "e", "l">>
S_BD == <<"B", "D">>
S_Amoxicillin == <<"A", "m", "o", "x", "i", "c", "i", "l", "l", "i", "n">>

NormBrands ==
    TextsUpTo(BrandAlphabet, MaxBrandLen)
    \cup {B_Augmentin_625, B_Amoxiclav_500_125, B_Panadol_500mg, S_unknown}

NormInputs ==
    { ExtractedMedicine(b, b, v, g, s, f, q) :
        b \in NormBrands,
        v \in {None, <<>>, S_625},
        g \in {None, <<>>, S_Amoxicillin},
        s \in {None, S_625_mg},
        f \in {None, <<>>, S_Tab, S_Gel},
        q \in {None, S_BD} }

-----------------------------------------------------------------------------
(* Inputs of the pipeline runs *)

MaxMentions == 2
MaxCatalogDeletes == 1

B_Amoxiclav == <<"A", "m", "o", "x", "i", "c", "l", "a", "v">>
B_Zzz == <<"Z", "z", "z">>
S_Augmentin_625_Tab == <<"A", "u", "g", "m", "e", "n", "t", "i", "n", " ", "6", "2", "5", " ", "T", "a", "b">>
S_Zzz_tab == <<"Z", "z", "z", " ", "t", "a", "b">>
S_Amoxiclav_500_125_syrup == <<"A", "m", "o", "x", "i", "c", "l", "a", "v", " ", "5", "0", "0", "/", "1", "2", "5", " ", "s", "y", "r", "u", "p">>

\* mentions as the extraction step hands them over
PipelineMentions ==
    { ExtractedMedicine(S_Augmentin_625_Tab, B_Augmentin_625, None, None, S_625_mg, S_Tab, None),
      ExtractedMedicine(S_Zzz_tab, B_Zzz, None, None, None, S_tab, None),
      ExtractedMedicine(S_Amoxiclav_500_125_syrup, B_Amoxiclav, S_500_125, None, None, S_syrup, S_BD) }

RECURSIVE ListsUpTo(_, _)
\* the non-empty lists of at most n elements of set
ListsUpTo(set, n) ==
    IF n = 0 THEN {}
    ELSE { <<x>> : x \in set }
         \cup { Append(l, x) : l \in ListsUpTo(set, n - 1), x \in set }

\* requests: with an image (items: what extraction reads from it), or with
\* neither image nor text
Payloads ==
    { [kind |-> "image", items |-> items, prescriber_id |-> p] :
        items \in ListsUpTo(PipelineMentions, MaxMentions),
        p \in {None, S_dr_1} }
    \cup { [kind |-> "none", items |-> <<>>, prescriber_id |-> None] }

\* scores the vector index may report: below 0, just under a threshold, above 1
PineconeScores == {0 - 5000, 84996, 120000}

\* the row ids the vector index may report: one in the catalog and one that
\* was never in it
PineconeIds == {1, 9}

NoOutcome == [kind |-> "none", id |-> 0, score |-> 0]

PineconeOutcomes ==
    { [kind |-> k, id |-> 0, score |-> 0] :
        k \in {"no_host", "query_error", "bad_match", "no_match"} }
    \cup { [kind |-> "match", id |-> i, score |-> sc] :
             i \in PineconeIds, sc \in PineconeScores }

EncoderEnvs ==
    [ dense_load : BOOLEAN, dense_encode : {"ok", "raise"},
      sparse_load : BOOLEAN, sparse_encode : {"ok", "raise"} ]

NoCandidate == CandidateMatch(0, 0, <<"none", <<>> >>)
NoRetrieval == [outcome |-> NoOutcome, records |-> {}, dense |-> "None", sparse |-> "None"]
\* a response: the HTTP status, the body of a 200 (medicines, guardrail_logs)
\* and the step an HTTPException's detail reports
ExtractionResponse(medicines, logs) ==
    [status |-> 200, medicines |-> medicines, guardrail_logs |-> logs, detail |-> ""]
HTTPException(status_code, detail) ==
    [status |-> status_code, medicines |-> <<>>, guardrail_logs |-> <<>>, detail |-> detail]
NoResponse == [status |-> 0, medicines |-> <<>>, guardrail_logs |-> <<>>, detail |-> ""]

-----------------------------------------------------------------------------
(* One run of extract_route, step by step between its awaits *)

NormIdle ==
    /\ nm_in = NoMention
    /\ nm_once = NoMention
    /\ nm_twice = NoMention
    /\ nm_logs = <<>>

NoMatched == MatchedMedicine(0, <<>>, <<>>, <<>>, <<>>, FALSE, 0, "", "", FALSE)

GuardIdle ==
    /\ pm_in = [extracted |-> NoMention, candidate |-> NoCandidate, db_record |-> NoRecord]
    /\ pm_out = NoMatched
    /\ pm_logs = <<>>

PriorIdle ==
    /\ pp_in = [candidate |-> NoCandidate, prescriber_id |-> None, rows |-> {}]
    /\ pp_out = NoCandidate
    /\ pp_logs = <<>>

FallbackIdle ==
    /\ fb_in = [extracted |-> NoMention, records |-> {}]
    /\ fb_out = NoCandidate
    /\ fb_queried = <<>>

EncoderIdle ==
    /\ enc_lib = [dense |-> FALSE, sparse |-> FALSE]
    /\ enc_events = <<>>

\* the handler's locals before a request is taken up
RouteFresh ==
    /\ guardrail_logs = <<>>
    /\ raw_ai_extracted_items = <<>>
    /\ index = 0
    /\ item_guardrail_logs = <<>>
    /\ pre_guardrailed = NoMention
    /\ top_candidate = NoCandidate
    /\ processed_medicines = <<>>
    /\ response = NoResponse
    /\ cached_response = NoResponse
    /\ branches = <<>>
    /\ candidates = <<>>
    /\ retrieval = NoRetrieval
    /\ deletes = 0

Init ==
    /\ catalog = RecordIds
    /\ history = SeedHistory
    /\ pinecone_enabled \in BOOLEAN
    /\ dense_model = "None"
    /\ sparse_encoder = "None"
    /\ payload \in Payloads
    /\ pc = "Received"
    /\ RouteFresh
    /\ unit_pc = "idle"
    /\ NormIdle
    /\ GuardIdle
    /\ PriorIdle
    /\ FallbackIdle
    /\ EncoderIdle

total_items == Len(raw_ai_extracted_items)

WorkflowStarted ==
    L("Workflow started: Cache Check -> Extraction -> Phase 1 -> Hybrid Search -> Phase 2")

\* entries of the golden cache file, as ExtractionResponse.model_validate reads them
CachedItem(logs) ==
    ProcessedMedicine(S_Augmentin_625_Tab,
                      ExtractedMedicine(S_Augmentin_625_Tab, S_augmentin, S_625,
                                        None, None, S_tablet, None),
                      MatchedMedicine(1, B_Augmentin_625_Duo, S_co_amoxiclav, S_625_mg,
                                      S_tablet, TRUE, 88000, "High", "High", FALSE),
                      logs)

CachedResponses ==
    { ExtractionResponse(<<CachedItem(<<>>)>>, <<>>),
      ExtractionResponse(<<CachedItem(<<L("Official strength injected")>>)>>,
                         <<L("Golden cache entry")>>),
      ExtractionResponse(<<CachedItem(<<L("Official strength injected")>>), CachedItem(<<>>)>>,
                         <<L("Golden cache entry")>>) }

\* lines 33-36: the request-level log is appended to the cached response's
\* log and to the log of each of its items
serve_cached(cached, request_log) ==
    ExtractionResponse(
        [i \in 1..Len(cached.medicines) |->
            [cached.medicines[i] EXCEPT !.guardrail_logs = @ \o request_log]],
        cached.guardrail_logs \o request_log)

\* ExtractionRequest.validate_input_present raises: the request is answered
\* 422 before extract_route runs
RejectRequest ==
    /\ pc = "Received"
    /\ payload.kind = "none"
    /\ response' = HTTPException(422, "input")
    /\ pc' = "Responded"
    /\ UNCHANGED <<payload, cached_response, guardrail_logs, raw_ai_extracted_items, index,
                   item_guardrail_logs, pre_guardrailed, top_candidate,
                   processed_medicines, branches, candidates, retrieval, deletes>>
    /\ UNCHANGED <<deployment_vars, unit_vars>>

\* lines 20-36: the image's hash has an entry in the golden cache
CacheHit ==
    /\ pc = "Received"
    /\ payload.kind = "image"
    /\ \E cached \in CachedResponses :
          /\ cached_response' = cached
          /\ guardrail_logs' =
                 <<WorkflowStarted, L("Workflow short-circuited by cache hit")>>
          /\ response' = serve_cached(cached, guardrail_logs')
    /\ pc' = "Responded"
    /\ UNCHANGED <<payload, raw_ai_extracted_items, index,
                   item_guardrail_logs, pre_guardrailed, top_candidate,
                   processed_medicines, branches, candidates, retrieval, deletes>>
    /\ UNCHANGED <<deployment_vars, unit_vars>>

\* line 30: the entry found does not validate as an ExtractionResponse;
\* model_validate raises a ValidationError, a ValueError: lines 136-137 answer 422
CacheEntryInvalid ==
    /\ pc = "Received"
    /\ payload.kind = "image"
    /\ response' = HTTPException(422, "cache entry")
    /\ pc' = "Responded"
    /\ UNCHANGED <<payload, cached_response, guardrail_logs, raw_ai_extracted_items, index,
                   item_guardrail_logs, pre_guardrailed, top_candidate,
                   processed_medicines, branches, candidates, retrieval, deletes>>
    /\ UNCHANGED <<deployment_vars, unit_vars>>

\* lines 20-41: the log is opened and extract_medicines returns the mentions
Extract ==
    /\ pc = "Received"
    /\ payload.kind = "image"
    /\ raw_ai_extracted_items' = payload.items
    /\ guardrail_logs' =
           << WorkflowStarted,
              <<"Image extracted via OpenAI structured outputs parse(): ">>
                  \o IntText(Len(payload.items)) \o <<" medicine entr", Entries(Len(payload.items)), " detected">>,
              <<"Detected ">> \o IntText(Len(payload.items))
                  \o <<" medicine entr", Entries(Len(payload.items)), " for analysis">> >>
    /\ index' = 1
    /\ pc' = "Start"
    /\ UNCHANGED <<payload, cached_response, item_guardrail_logs, pre_guardrailed, top_candidate,
                   processed_medicines, response, branches, candidates, retrieval, deletes>>
    /\ UNCHANGED <<deployment_vars, unit_vars>>

\* extract_medicines raises ValueError: lines 136-137 answer 422
ExtractFails ==
    /\ pc = "Received"
    /\ payload.kind = "image"
    /\ response' = HTTPException(422, "extraction")
    /\ pc' = "Responded"
    /\ UNCHANGED <<payload, cached_response, guardrail_logs, raw_ai_extracted_items, index,
                   item_guardrail_logs, pre_guardrailed, top_candidate,
                   processed_medicines, branches, candidates, retrieval, deletes>>
    /\ UNCHANGED <<deployment_vars, unit_vars>>

\* lines 45-49 with line 45 taking the list of the previous mention instead of
\* a copy of guardrail_logs
PreMatch_on_previous_log ==
    /\ pc = "Start"
    /\ pre_guardrailed' = apply_pre_match_guardrails(raw_ai_extracted_items[index])
    /\ item_guardrail_logs' =
           (IF index = 1 THEN guardrail_logs ELSE item_guardrail_logs)
           \o << <<"Processing medicine ">> \o IntText(index) \o <<"/">> \o IntText(total_items) >>
           \o pre_match_logs(raw_ai_extracted_items[index])
    /\ pc' = "Normalized"
    /\ UNCHANGED <<payload, cached_response, guardrail_logs, raw_ai_extracted_items, index, top_candidate,
                   processed_medicines, response, branches, candidates, retrieval, deletes>>
    /\ UNCHANGED <<deployment_vars, unit_vars>>

\* lines 45-49
PreMatch ==
    /\ pc = "Start"
    /\ pre_guardrailed' = apply_pre_match_guardrails(raw_ai_extracted_items[index])
    /\ item_guardrail_logs' =
           guardrail_logs
           \o << <<"Processing medicine ">> \o IntText(index) \o <<"/">> \o IntText(total_items) >>
           \o pre_match_logs(raw_ai_extracted_items[index])
    /\ pc' = "Normalized"
    /\ UNCHANGED <<payload, cached_response, guardrail_logs, raw_ai_extracted_items, index, top_candidate,
                   processed_medicines, response, branches, candidates, retrieval, deletes>>
    /\ UNCHANGED <<deployment_vars, unit_vars>>

\* lines 52-57: query_top_candidate returns
Retrieve ==
    /\ pc = "Normalized"
    /\ \E env \in EncoderEnvs :
       \E outcome \in (IF pinecone_enabled THEN PineconeOutcomes ELSE {NoOutcome}) :
          LET dense == get_encoder(dense_model, env.dense_load)
              sparse == get_encoder(sparse_encoder, env.sparse_load)
              returned == query_top_candidate(pre_guardrailed, dense, sparse,
                                              pinecone_enabled, outcome, catalog,
                                              payload.prescriber_id, history)
          IN /\ ~encoders_raise(dense, sparse, env)
             /\ dense_model' = dense
             /\ sparse_encoder' = sparse
             /\ top_candidate' = returned.candidate
             /\ item_guardrail_logs' = item_guardrail_logs \o returned.logs
             /\ retrieval' = [outcome |-> outcome, records |-> catalog,
                              dense |-> dense, sparse |-> sparse]
    /\ pc' = "Retrieved"
    /\ UNCHANGED <<payload, cached_response, guardrail_logs, raw_ai_extracted_items, index, pre_guardrailed,
                   processed_medicines, response, branches, candidates, deletes>>
    /\ UNCHANGED <<catalog, history, pinecone_enabled>>
    /\ UNCHANGED unit_vars

\* lines 178, 186: an encode call raises inside query_top_candidate, which has
\* no handler around it; lines 138-139 answer 500
RetrieveRaises ==
    /\ pc = "Normalized"
    /\ \E env \in EncoderEnvs :
          LET dense == get_encoder(dense_model, env.dense_load)
              dense_raises == dense = "loaded" /\ env.dense_encode = "raise"
              sparse == IF dense_raises THEN sparse_encoder
                        ELSE get_encoder(sparse_encoder, env.sparse_load)
          IN /\ encoders_raise(dense, sparse, env)
             /\ dense_model' = dense
             /\ sparse_encoder' = sparse
    /\ response' = HTTPException(500, "Internal server error")
    /\ pc' = "Responded"
    /\ UNCHANGED <<payload, cached_response, guardrail_logs, raw_ai_extracted_items, index,
                   item_guardrail_logs, pre_guardrailed, top_candidate,
                   processed_medicines, branches, candidates, retrieval, deletes>>
    /\ UNCHANGED <<catalog, history, pinecone_enabled>>
    /\ UNCHANGED unit_vars

\* lines 79, 110, 122 inserting the result at the head of processed_medicines
Terminate_at_head(branch, matched, logs) ==
    /\ processed_medicines' =
           <<ProcessedMedicine(raw_ai_extracted_items[index].raw_input,
                               pre_guardrailed, matched, logs)>>
           \o processed_medicines
    /\ item_guardrail_logs' = logs
    /\ branches' = Append(branches, branch)
    /\ candidates' = Append(candidates, top_candidate)
    /\ top_candidate' = NoCandidate
    /\ retrieval' = NoRetrieval
    /\ pc' = "Done"
    /\ UNCHANGED <<payload, cached_response, guardrail_logs, raw_ai_extracted_items, index,
                   pre_guardrailed, response, deletes>>
    /\ UNCHANGED <<deployment_vars, unit_vars>>

\* the terminal branches append the mention's result and end its run
Terminate(branch, matched, logs) ==
    /\ processed_medicines' =
           Append(processed_medicines,
                  ProcessedMedicine(raw_ai_extracted_items[index].raw_input,
                                    pre_guardrailed, matched, logs))
    /\ item_guardrail_logs' = logs
    /\ branches' = Append(branches, branch)
    /\ candidates' = Append(candidates, top_candidate)
    /\ top_candidate' = NoCandidate
    /\ retrieval' = NoRetrieval
    /\ pc' = "Done"
    /\ UNCHANGED <<payload, cached_response, guardrail_logs, raw_ai_extracted_items, index,
                   pre_guardrailed, response, deletes>>
    /\ UNCHANGED <<deployment_vars, unit_vars>>

\* lines 60-87
NoMatch ==
    /\ pc = "Retrieved"
    /\ top_candidate.id = NO_MATCH_ID
    /\ Terminate("NoMatch", vlm_matched_no_match(pre_guardrailed),
                 item_guardrail_logs
                 \o << L("GUARDRAIL: No DB record found -- returning VLM-grounded extraction; manual review required"),
                       L("Workflow completed: VLM-only payload -- not grounded against SQLite ground truth") >>)

\* lines 90-118
StaleId ==
    /\ pc = "Retrieved"
    /\ top_candidate.id # NO_MATCH_ID
    /\ get_medicine_by_id(top_candidate.id, catalog) = NoRecord
    /\ Terminate("StaleId", vlm_matched_stale_id(pre_guardrailed),
                 item_guardrail_logs
                 \o << <<"GUARDRAIL: Pinecone candidate id=">> \o IntText(top_candidate.id)
                       \o <<" not found in SQLite -- falling back to VLM-only payload">>,
                       L("Workflow completed: VLM-only payload -- Pinecone/SQLite ID mismatch") >>)

\* lines 90-91, 120-129
Matched ==
    /\ pc = "Retrieved"
    /\ top_candidate.id # NO_MATCH_ID
    /\ get_medicine_by_id(top_candidate.id, catalog) # NoRecord
    /\ LET db_record == get_medicine_by_id(top_candidate.id, catalog)
       IN Terminate("Matched",
                    apply_post_match_guardrails(pre_guardrailed, top_candidate, db_record),
                    item_guardrail_logs
                    \o post_match_logs(pre_guardrailed, top_candidate, db_record)
                    \o <<L("Workflow completed: final grounded payload generated")>>)

\* line 44: the loop takes the next mention
NextMention ==
    /\ pc = "Done"
    /\ index < total_items
    /\ index' = index + 1
    /\ pc' = "Start"
    /\ UNCHANGED <<payload, cached_response, guardrail_logs, raw_ai_extracted_items, item_guardrail_logs,
                   pre_guardrailed, top_candidate, processed_medicines, response,
                   branches, candidates, retrieval, deletes>>
    /\ UNCHANGED <<deployment_vars, unit_vars>>

\* lines 131-132
Finish ==
    /\ pc = "Done"
    /\ index = total_items
    /\ guardrail_logs' =
           Append(guardrail_logs,
                  <<"Workflow completed: analyzed ">> \o IntText(Len(processed_medicines))
                  \o <<" medicine entr", Entries(Len(processed_medicines))>>)
    /\ response' = ExtractionResponse(processed_medicines, guardrail_logs')
    /\ pc' = "Responded"
    /\ UNCHANGED <<payload, cached_response, raw_ai_extracted_items, index, item_guardrail_logs,
                   pre_guardrailed, top_candidate, processed_medicines,
                   branches, candidates, retrieval, deletes>>
    /\ UNCHANGED <<deployment_vars, unit_vars>>

\* The ingestion process that owns the catalog removes the candidate's row
\* while the handler awaits between query_top_candidate and get_medicine_by_id.
CatalogDelete ==
    /\ pc = "Retrieved"
    /\ deletes < MaxCatalogDeletes
    /\ top_candidate.id \in catalog
    /\ catalog' = catalog \ {top_candidate.id}
    /\ deletes' = deletes + 1
    /\ UNCHANGED <<history, pinecone_enabled, dense_model, sparse_encoder>>
    /\ UNCHANGED <<payload, cached_response, pc, guardrail_logs, raw_ai_extracted_items, index,
                   item_guardrail_logs, pre_guardrailed, top_candidate,
                   processed_medicines, response, branches, candidates, retrieval>>
    /\ UNCHANGED unit_vars

Next ==
    \/ RejectRequest
    \/ CacheHit
    \/ CacheEntryInvalid
    \/ Extract
    \/ ExtractFails
    \/ PreMatch
    \/ Retrieve
    \/ RetrieveRaises
    \/ NoMatch
    \/ StaleId
    \/ Matched
    \/ NextMention
    \/ Finish
    \/ CatalogDelete

Spec == Init /\ [][Next]_vars

-----------------------------------------------------------------------------
(* Function-level run of the Normalizer: apply it, then apply it again *)

NormInit ==
    /\ catalog = RecordIds
    /\ history = SeedHistory
    /\ pinecone_enabled = FALSE
    /\ dense_model = "None"
    /\ sparse_encoder = "None"
    /\ payload = [kind |-> "image", items |-> <<>>, prescriber_id |-> None]
    /\ pc = "idle"
    /\ RouteFresh
    /\ unit_pc = "norm_input"
    /\ nm_in \in NormInputs
    /\ nm_once = NoMention
    /\ nm_twice = NoMention
    /\ nm_logs = <<>>
    /\ GuardIdle
    /\ PriorIdle
    /\ FallbackIdle
    /\ EncoderIdle

NormOnce ==
    /\ unit_pc = "norm_input"
    /\ nm_once' = apply_pre_match_guardrails(nm_in)
    /\ nm_logs' = pre_match_logs(nm_in)
    /\ unit_pc' = "norm_once"
    /\ UNCHANGED <<nm_in, nm_twice>>
    /\ UNCHANGED <<deployment_vars, route_vars, guard_vars, prior_vars, fallback_vars, encoder_vars>>

NormTwice ==
    /\ unit_pc = "norm_once"
    /\ nm_twice' = apply_pre_match_guardrails(nm_once)
    /\ unit_pc' = "norm_twice"
    /\ UNCHANGED <<nm_in, nm_once, nm_logs>>
    /\ UNCHANGED <<deployment_vars, route_vars, guard_vars, prior_vars, fallback_vars, encoder_vars>>

NormNext == NormOnce \/ NormTwice

NormSpec == NormInit /\ [][NormNext]_vars

-----------------------------------------------------------------------------
(* Function-level run of apply_post_match_guardrails *)

S_Tablet == <<"T", "a", "b", "l", "e", "t">>
B_Amoxiclav_375 == <<"A", "m", "o", "x", "i", "c", "l", "a", "v", " ", "3", "7", "5">>
B_Crocin == <<"C", "r", "o", "c", "i", "n">>
S_375_mg == <<"3", "7", "5", " ", "m", "g">>
S_500_mg == <<"5", "0", "0", " ", "m", "g">>
S_375 == <<"3", "7", "5">>
S_625_padded == <<" ", "6", "2", "5", " ">>
S_blank == <<" ">>

\* mentions with no variant, a blank one, variants equal to and different
\* from the records' first digit run, and a fraction variant
GuardMentions ==
    { ExtractedMedicine(<<>>, S_augmentin, v, None, s, f, None) :
        v \in {None, <<>>, S_blank, S_625, S_625_padded, S_375, S_500_125},
        s \in {None, S_500_mg},
        f \in {None, <<>>, S_tablet, S_Tablet, S_syrup} }

\* records with and without a digit run in the brand_name, with and without a form
GuardRecords ==
    { MedicineRecord(1, b, S_co_amoxiclav, S_625_mg, f, c) :
        b \in {B_Augmentin_625_Duo, B_Amoxiclav_375, B_Amoxiclav_500_125, B_Crocin},
        f \in {S_tablet, S_Tablet, <<>>},
        c \in BOOLEAN }

\* scores below 0, at the fallback score with and without the largest boost,
\* around the thresholds, and above 1 as a dot-product index reports them
GuardScores == {0 - 5000, 78000, 84996, 88000, 90000, 93000, 120000, 160000}

GuardInit ==
    /\ catalog = RecordIds
    /\ history = SeedHistory
    /\ pinecone_enabled = FALSE
    /\ dense_model = "None"
    /\ sparse_encoder = "None"
    /\ payload = [kind |-> "image", items |-> <<>>, prescriber_id |-> None]
    /\ pc = "idle"
    /\ RouteFresh
    /\ NormIdle
    /\ PriorIdle
    /\ FallbackIdle
    /\ EncoderIdle
    /\ unit_pc = "guard_input"
    /\ pm_in \in { [extracted |-> e, candidate |-> CandidateMatch(r.id, sc, <<"pinecone", <<>> >>),
                    db_record |-> r] :
                   e \in GuardMentions, r \in GuardRecords, sc \in GuardScores }
    /\ pm_out = NoMatched
    /\ pm_logs = <<>>

PostMatch ==
    /\ unit_pc = "guard_input"
    /\ pm_out' = apply_post_match_guardrails(pm_in.extracted, pm_in.candidate, pm_in.db_record)
    /\ pm_logs' = post_match_logs(pm_in.extracted, pm_in.candidate, pm_in.db_record)
    /\ unit_pc' = "guard_done"
    /\ UNCHANGED pm_in
    /\ UNCHANGED <<deployment_vars, route_vars, nm_in, nm_once, nm_twice, nm_logs, prior_vars,
                   fallback_vars, encoder_vars>>

GuardNext == PostMatch

GuardSpec == GuardInit /\ [][GuardNext]_vars

-----------------------------------------------------------------------------
(* Function-level run of _apply_prescriber_prior *)

MaxMappingCount == 6

S_dr_2 == <<"d", "r", "-", "2">>

PriorCandidates ==
    { CandidateMatch(id, sc, <<"sqlite_fallback", <<>> >>) :
        id \in {1, NO_MATCH_ID}, sc \in {0, FallbackScore, 95000, 120000} }

\* history tables: empty, or one row of dr-1 for medicine 1 or for medicine 2
PriorHistories ==
    { {} }
    \cup { { [prescriber_id |-> S_dr_1, medicine_id |-> mid, mapping_count |-> n] } :
              mid \in {1, 2}, n \in 0..MaxMappingCount }

PriorInit ==
    /\ catalog = RecordIds
    /\ history = SeedHistory
    /\ pinecone_enabled = FALSE
    /\ dense_model = "None"
    /\ sparse_encoder = "None"
    /\ payload = [kind |-> "image", items |-> <<>>, prescriber_id |-> None]
    /\ pc = "idle"
    /\ RouteFresh
    /\ NormIdle
    /\ GuardIdle
    /\ FallbackIdle
    /\ EncoderIdle
    /\ unit_pc = "prior_input"
    /\ pp_in \in { [candidate |-> c, prescriber_id |-> p, rows |-> h] :
                   c \in PriorCandidates,
                   p \in {None, <<>>, S_dr_1, S_dr_2},
                   h \in PriorHistories }
    /\ pp_out = NoCandidate
    /\ pp_logs = <<>>

PrescriberPrior ==
    /\ unit_pc = "prior_input"
    /\ pp_out' = _apply_prescriber_prior(pp_in.candidate, pp_in.prescriber_id, pp_in.rows)
    /\ pp_logs' = prescriber_prior_logs(pp_in.candidate, pp_in.prescriber_id, pp_in.rows)
    /\ unit_pc' = "prior_done"
    /\ UNCHANGED pp_in
    /\ UNCHANGED <<deployment_vars, route_vars, nm_in, nm_once, nm_twice, nm_logs, guard_vars,
                   fallback_vars, encoder_vars>>

PriorNext == PrescriberPrior

PriorSpec == PriorInit /\ [][PriorNext]_vars

-----------------------------------------------------------------------------
(* search_service._local_sqlite_fallback on its own *)

B_Augmentin == <<"A", "u", "g", "m", "e", "n", "t", "i", "n">>
B_Calpol_Forte == <<"C", "a", "l", "p", "o", "l", " ", "F", "o", "r", "t", "e">>
B_Amox_clav == <<"A", "m", "o", "x", "_", "c", "l", "a", "v">>
B_Cal_ol == <<"C", "a", "l", "%", "o", "l">>
B_Zzz_Calp == <<"Z", "z", "z", " ", "C", "a", "l", "p">>
B_Zzz_Cal == <<"Z", "z", "z", " ", "C", "a", "l">>
B_co_amoxiclav == <<"c", "o", " ", "a", "m", "o", "x", "i", "c", "l", "a", "v">>
S_Co_Amoxiclav == <<"C", "o", "-", "A", "m", "o", "x", "i", "c", "l", "a", "v">>

\* brands and generic names with and without a row containing them, in mixed
\* case, of several words, and holding the LIKE characters _ and %
FallbackBrands ==
    { B_Augmentin, B_Amoxiclav, B_Zzz, S_unknown, B_Calpol_Forte, B_Amox_clav,
      B_Cal_ol, B_Zzz_Calp, B_Zzz_Cal, B_co_amoxiclav }

FallbackGenerics == {None, <<>>, S_paracetamol, S_Co_Amoxiclav}

FallbackInit ==
    /\ catalog = RecordIds
    /\ history = SeedHistory
    /\ pinecone_enabled = FALSE
    /\ dense_model = "None"
    /\ sparse_encoder = "None"
    /\ payload = [kind |-> "image", items |-> <<>>, prescriber_id |-> None]
    /\ pc = "idle"
    /\ RouteFresh
    /\ NormIdle
    /\ GuardIdle
    /\ PriorIdle
    /\ EncoderIdle
    /\ unit_pc = "fallback_input"
    /\ fb_in \in { [extracted |-> ExtractedMedicine(b, b, None, g, None, None, None),
                    records |-> rows] :
                   b \in FallbackBrands, g \in FallbackGenerics, rows \in SUBSET RecordIds }
    /\ fb_out = NoCandidate
    /\ fb_queried = <<>>

LocalFallback ==
    /\ unit_pc = "fallback_input"
    /\ fb_out' = _local_sqlite_fallback(fb_in.extracted, fb_in.records)
    /\ fb_queried' = QueriedFrom(search_terms(fb_in.extracted), fb_in.records)
    /\ unit_pc' = "fallback_done"
    /\ UNCHANGED fb_in
    /\ UNCHANGED <<deployment_vars, route_vars, nm_in, nm_once, nm_twice, nm_logs,
                   guard_vars, prior_vars, encoder_vars>>

FallbackNext == LocalFallback

FallbackSpec == FallbackInit /\ [][FallbackNext]_vars

-----------------------------------------------------------------------------
(* search_service._get_dense_model / _get_sparse_encoder over a series of calls *)

MaxEncoderCalls == 4

\* lines 51, 86: the global is None and the library was imported, so the
\* constructor is called
constructor_called(global, imported) == global = "None" /\ imported

EncoderCall(encoder, global, imported, load_ok) ==
    [ encoder |-> encoder,
      constructed |-> constructor_called(global, imported),
      ok |-> constructor_called(global, imported) /\ load_ok ]

EncoderInit ==
    /\ catalog = RecordIds
    /\ history = SeedHistory
    /\ pinecone_enabled = FALSE
    /\ dense_model = "None"
    /\ sparse_encoder = "None"
    /\ payload = [kind |-> "image", items |-> <<>>, prescriber_id |-> None]
    /\ pc = "idle"
    /\ RouteFresh
    /\ NormIdle
    /\ GuardIdle
    /\ PriorIdle
    /\ FallbackIdle
    /\ unit_pc = "encoders"
    /\ enc_lib \in [dense : BOOLEAN, sparse : BOOLEAN]
    /\ enc_events = <<>>

\* _get_dense_model(); load_ok: SentenceTransformer(...) returns
GetDenseModel ==
    /\ unit_pc = "encoders"
    /\ Len(enc_events) < MaxEncoderCalls
    /\ \E load_ok \in BOOLEAN :
          /\ dense_model' = get_encoder(dense_model, enc_lib.dense /\ load_ok)
          /\ enc_events' = Append(enc_events,
                                  EncoderCall("dense", dense_model, enc_lib.dense, load_ok))
    /\ UNCHANGED <<catalog, history, pinecone_enabled, sparse_encoder, enc_lib>>
    /\ UNCHANGED <<route_vars, norm_vars, guard_vars, prior_vars, fallback_vars>>

\* _get_sparse_encoder(); load_ok: BM25Encoder() and fit(...) return
GetSparseEncoder ==
    /\ unit_pc = "encoders"
    /\ Len(enc_events) < MaxEncoderCalls
    /\ \E load_ok \in BOOLEAN :
          /\ sparse_encoder' = get_encoder(sparse_encoder, enc_lib.sparse /\ load_ok)
          /\ enc_events' = Append(enc_events,
                                  EncoderCall("sparse", sparse_encoder, enc_lib.sparse, load_ok))
    /\ UNCHANGED <<catalog, history, pinecone_enabled, dense_model, enc_lib>>
    /\ UNCHANGED <<route_vars, norm_vars, guard_vars, prior_vars, fallback_vars>>

EncoderNext == GetDenseModel \/ GetSparseEncoder

EncoderSpec == EncoderInit /\ [][EncoderNext]_vars

-----------------------------------------------------------------------------
(* Properties *)

Processed == 1..Len(processed_medicines)
matched_of(i) == processed_medicines[i].matched_medicine
logs_of(i) == processed_medicines[i].guardrail_logs
RiskTiers == {"High", "Medium", "Low"}

HasEntry(logs, entry) == \E k \in 1..Len(logs) : logs[k] = entry
HasEntryStarting(logs, fragment) == \E k \in 1..Len(logs) : logs[k][1] = fragment

\* C1: the mention apply_pre_match_guardrails returns never has both a
\* non-null variant and a non-null strength.
C1_VariantExcludesStrength ==
    unit_pc \in {"norm_once", "norm_twice"} =>
        (nm_once.variant # None => nm_once.strength = None)

\* C2 as stated: on every terminal branch the risk tier is High, Medium or Low
\* and manual_review_required is true exactly when the tier is Low.
C2_ManualReviewIffLow ==
    \A i \in Processed :
        /\ matched_of(i).clinical_risk_tier \in RiskTiers
        /\ matched_of(i).manual_review_required
             <=> (matched_of(i).clinical_risk_tier = "Low")

\* C2 amended: the risk tier is always High, Medium or Low; on the Matched
\* branch manual_review_required is true exactly when the tier is Low; on the
\* NoMatch and StaleId branches the label is the fixed "High" and
\* manual_review_required is true.
C2_ManualReviewByBranch ==
    \A i \in Processed :
        /\ matched_of(i).clinical_risk_tier \in RiskTiers
        /\ matched_of(i).risk_classification = matched_of(i).clinical_risk_tier
        /\ branches[i] = "Matched" =>
             (matched_of(i).manual_review_required
                <=> (matched_of(i).clinical_risk_tier = "Low"))
        /\ branches[i] \in {"NoMatch", "StaleId"} =>
             /\ matched_of(i).clinical_risk_tier = "High"
             /\ matched_of(i).manual_review_required

\* a request with a Matched result of tier Low and a degraded result
C2_Witness ==
    /\ \E i \in Processed :
          /\ branches[i] = "Matched"
          /\ matched_of(i).clinical_risk_tier = "Low"
          /\ matched_of(i).manual_review_required
    /\ \E i \in Processed : branches[i] \in {"NoMatch", "StaleId"}

\* C3: every result's final_similarity_score lies in [0, 1].
C3_ScoreInUnitInterval ==
    \A i \in Processed :
        /\ matched_of(i).final_similarity_score >= 0
        /\ matched_of(i).final_similarity_score <= One

\* a request with a Matched result whose candidate scored above 1 and one
\* whose candidate scored below 0
C3_Witness ==
    /\ \E i \in Processed :
          /\ branches[i] = "Matched"
          /\ candidates[i].score > One
          /\ matched_of(i).final_similarity_score = One
    /\ \E i \in Processed :
          /\ branches[i] = "Matched"
          /\ candidates[i].score < 0
          /\ matched_of(i).final_similarity_score = 0

\* C4: applying apply_pre_match_guardrails to its own result returns that
\* result, field by field.
C4_NormalizationIdempotent ==
    unit_pc = "norm_twice" =>
        /\ nm_twice.brand = nm_once.brand
        /\ nm_twice.variant = nm_once.variant
        /\ nm_twice.generic_name = nm_once.generic_name
        /\ nm_twice.strength = nm_once.strength
        /\ nm_twice.form = nm_once.form
        /\ nm_twice.frequency = nm_once.frequency
        /\ nm_twice.raw_input = nm_once.raw_input

\* a mention that the first application changed in brand, variant, strength
\* and form has been normalized twice
C4_Witness ==
    /\ unit_pc = "norm_twice"
    /\ nm_in.brand = B_Amoxiclav_500_125
    /\ nm_in.variant = None
    /\ nm_once.variant = <<"5", "0", "0">>
    /\ nm_in.strength # None
    /\ nm_once.strength = None
    /\ nm_in.form = S_Tab
    /\ nm_once.form = S_tablet

\* C5: a mention whose retrieval returned the sentinel candidate gets a result
\* with manual_review_required true and an id that is no catalog id, and the
\* handler goes on without an error response.
C5_SentinelPath ==
    /\ \A i \in Processed :
          branches[i] = "NoMatch" =>
              /\ candidates[i].id = NO_MATCH_ID
              /\ matched_of(i).manual_review_required
              /\ matched_of(i).id \notin RecordIds
    /\ (pc = "Done" /\ branches[Len(branches)] = "NoMatch") => response = NoResponse
    /\ (pc = "Responded" /\ Len(branches) = total_items /\ total_items > 0) =>
           /\ response.status = 200
           /\ response.medicines = processed_medicines

\* a request answered 200 whose only mention took the sentinel path
C5_Witness ==
    /\ pc = "Responded"
    /\ response.status = 200
    /\ Len(response.medicines) = 1
    /\ branches = <<"NoMatch">>
    /\ response.medicines[1].matched_medicine.id = 0

\* C6: a mention whose candidate id does not resolve gets the matched-medicine
\* fields the sentinel path gives the same normalized mention, and its log
\* holds an entry no sentinel-path log holds.
C6_StaleIdPath ==
    \A i \in Processed :
        /\ branches[i] = "StaleId" =>
             /\ candidates[i].id # NO_MATCH_ID
             /\ matched_of(i) = vlm_matched_no_match(processed_medicines[i].extracted)
             /\ HasEntryStarting(logs_of(i), "GUARDRAIL: Pinecone candidate id=")
        /\ branches[i] = "NoMatch" =>
             ~HasEntryStarting(logs_of(i), "GUARDRAIL: Pinecone candidate id=")

\* a request in which one mention ended StaleId and another NoMatch
C6_Witness ==
    /\ \E i \in Processed : branches[i] = "StaleId"
    /\ \E i \in Processed : branches[i] = "NoMatch"

\* C7: once extraction has returned the mentions, no failure of the vector
\* index, of an encoder or of id resolution reaches the caller: the request is
\* answered 200.
C7_RetrievalFaultsRecovered ==
    (pc = "Responded" /\ raw_ai_extracted_items # <<>>) => response.status = 200

\* the log of the mention in hand as it stood when query_top_candidate was called
logs_before_retrieval ==
    guardrail_logs
    \o << <<"Processing medicine ">> \o IntText(index) \o <<"/">> \o IntText(total_items) >>
    \o pre_match_logs(raw_ai_extracted_items[index])

PineconeUnavailable == L("Pinecone unavailable: deterministic SQLite fallback engaged")
IsNotUnavailable(entry) == entry # PineconeUnavailable
NoMatchOutcome == [kind |-> "no_match", id |-> 0, score |-> 0]

\* C8: when the vector-index call fails, query_top_candidate returns (it does
\* not raise), the log has the unavailability entry, and the candidate and the
\* rest of the log are those of a query that returned no match.
C8_IndexFailureFallsBack ==
    (pc = "Retrieved" /\ pinecone_enabled /\ PineconeFails(retrieval.outcome)) =>
        LET as_no_match ==
                query_top_candidate(pre_guardrailed, retrieval.dense, retrieval.sparse,
                                    TRUE, NoMatchOutcome, retrieval.records,
                                    payload.prescriber_id, history)
        IN /\ response = NoResponse
           /\ top_candidate = as_no_match.candidate
           /\ top_candidate.metadata[1] # "pinecone"
           /\ HasEntry(item_guardrail_logs, PineconeUnavailable)
           /\ SelectSeq(item_guardrail_logs, IsNotUnavailable)
                = logs_before_retrieval \o as_no_match.logs

\* the index returned a malformed match, the local search found a row and the
\* prescriber prior raised its score
C8_Witness ==
    /\ pc = "Retrieved"
    /\ pinecone_enabled
    /\ retrieval.outcome.kind = "bad_match"
    /\ top_candidate.id = 1
    /\ top_candidate.score > FallbackScore

\* C9: a vector-index match whose id is in the catalog is the candidate and
\* the local search is not consulted; in every other case the candidate is
\* that of the local search (a stale id being logged); the sentinel, with
\* score 0, is returned only when every search term misses.
C9_TierPriority ==
    pc = "Retrieved" =>
        LET out == retrieval.outcome
            verified == pinecone_enabled /\ out.kind = "match" /\ out.id \in retrieval.records
            local == _local_sqlite_fallback(pre_guardrailed, retrieval.records)
            terms == search_terms(pre_guardrailed)
        IN /\ verified =>
                /\ top_candidate.id = out.id
                /\ top_candidate.metadata[1] = "pinecone"
                /\ ~HasEntry(item_guardrail_logs,
                             L("Hybrid retrieval fallback: SQLite candidate selected"))
           /\ ~verified =>
                /\ top_candidate.id = local.id
                /\ top_candidate.metadata = local.metadata
                /\ HasEntry(item_guardrail_logs,
                            L("Hybrid retrieval fallback: SQLite candidate selected"))
           /\ (pinecone_enabled /\ out.kind = "match" /\ out.id \notin retrieval.records) =>
                HasEntryStarting(item_guardrail_logs, "Pinecone returned stale id=")
           /\ top_candidate.id = NO_MATCH_ID =>
                /\ top_candidate.score = 0
                /\ \A k \in 1..Len(terms) :
                      first_record_containing(terms[k], retrieval.records) = 0

\* the index reported an id that is not in the catalog and the local search
\* supplied the candidate
C9_Witness ==
    /\ pc = "Retrieved"
    /\ pinecone_enabled
    /\ retrieval.outcome.kind = "match"
    /\ retrieval.outcome.id \notin retrieval.records
    /\ top_candidate.id = 2
    /\ top_candidate.metadata[1] = "sqlite_fallback"

\* C10: the risk tier of a result of apply_post_match_guardrails is the
\* threshold classification of the final_similarity_score it returns: High iff
\* the score is at least 0.85, Medium iff it is at least 0.65 and below 0.85,
\* Low with manual review iff it is below 0.65.
C10_TierOfReturnedScore ==
    \A i \in Processed :
        branches[i] = "Matched" =>
            LET final == matched_of(i).final_similarity_score
                tier == matched_of(i).clinical_risk_tier
            IN /\ (tier = "High") <=> (final >= HighThreshold)
               /\ (tier = "Medium") <=> (final >= MediumThreshold /\ final < HighThreshold)
               /\ (tier = "Low" /\ matched_of(i).manual_review_required)
                    <=> (final < MediumThreshold)

\* the operands of a finished apply_post_match_guardrails call
pm_mention == pm_in.extracted
pm_record == pm_in.db_record
pm_start == pm_in.candidate.score

HasDigit(s) == \E k \in 1..Len(s) : IsDigit(s[k])

\* the first maximal run of digits of a text that has a digit
FirstDigitRun(s) ==
    LET i == CHOOSE k \in 1..Len(s) :
                 IsDigit(s[k]) /\ \A m \in 1..(k - 1) : ~IsDigit(s[m])
        j == CHOOSE k \in i..Len(s) :
                 /\ \A m \in i..k : IsDigit(s[m])
                 /\ k = Len(s) \/ ~IsDigit(s[k + 1])
    IN SubSeq(s, i, j)

MentionHasVariant(m) ==
    m.variant # None /\ \E k \in 1..Len(m.variant) : ~IsSpace(m.variant[k])

RecordHasVariant(r) == HasDigit(r.brand_name)

VariantsDiffer(m, r) == strip(m.variant) # FirstDigitRun(r.brand_name)

MentionHasForm(m) == m.form # None /\ m.form # <<>>
RecordHasForm(r) == r.form # None /\ r.form # <<>>
FormsDiffer(m, r) == lower(m.form) # lower(r.form)

\* the score stays in [0, 1] on a 1e-4 grid, so that clamping and rounding
\* return the penalised score itself
Unclamped(score, reduction) ==
    score <= One /\ score - reduction >= 0 /\ score % 10 = 0

\* C11: the variant rule subtracts 0.35 when the mention has a variant and
\* the record's first digit run exists and differs, 0.15 when the mention has
\* a variant and the record's brand_name has no digit run, and nothing when
\* the mention has no variant or the two are equal.
C11_VariantPenalty ==
    unit_pc = "guard_done" =>
        LET reduction ==
                IF MentionHasVariant(pm_mention) /\ RecordHasVariant(pm_record)
                   /\ VariantsDiffer(pm_mention, pm_record)
                THEN 35000
                ELSE IF MentionHasVariant(pm_mention) /\ ~RecordHasVariant(pm_record)
                THEN 15000
                ELSE 0
            form_rule_applies ==
                MentionHasForm(pm_mention) /\ RecordHasForm(pm_record)
                /\ FormsDiffer(pm_mention, pm_record)
        IN /\ (~form_rule_applies /\ Unclamped(pm_start, reduction)) =>
                  pm_out.final_similarity_score = pm_start - reduction
           /\ (form_rule_applies /\ Unclamped(pm_start, reduction + 30000)) =>
                  pm_out.final_similarity_score = pm_start - reduction - 30000
           /\ (reduction > 0) <=> HasEntry(pm_logs, L("Variant mismatch penalty applied"))

\* a variant against a record whose brand_name has no digit run: 0.90 -> 0.75
C11_Witness ==
    /\ unit_pc = "guard_done"
    /\ pm_mention.variant = S_625_padded
    /\ pm_record.brand_name = B_Crocin
    /\ pm_mention.form = None
    /\ pm_start = 90000
    /\ pm_out.final_similarity_score = 75000

\* C12: the form rule subtracts 0.30 exactly when the mention's form and the
\* record's form are both present and differ case-insensitively; when the
\* mention has a form and the record has none it subtracts nothing and logs a
\* skip entry; otherwise it changes neither the score nor the log.
C12_FormPenalty ==
    unit_pc = "guard_done" =>
        LET penalised ==
                MentionHasForm(pm_mention) /\ RecordHasForm(pm_record)
                /\ FormsDiffer(pm_mention, pm_record)
            skipped == MentionHasForm(pm_mention) /\ ~RecordHasForm(pm_record)
            reduction == IF penalised THEN 30000 ELSE 0
        IN /\ (~MentionHasVariant(pm_mention) /\ Unclamped(pm_start, reduction)) =>
                  pm_out.final_similarity_score = pm_start - reduction
           /\ penalised <=> HasEntry(pm_logs, L("Form mismatch penalty applied"))
           /\ skipped <=> HasEntry(pm_logs,
                              L("Form comparison skipped: database record has no form value"))

\* forms that differ only in case carry no penalty
C12_Witness ==
    /\ unit_pc = "guard_done"
    /\ pm_mention.form = S_tablet
    /\ pm_record.form = S_Tablet
    /\ pm_mention.variant = None
    /\ pm_start = 88000
    /\ pm_out.final_similarity_score = 88000
    /\ ~HasEntry(pm_logs, L("Form mismatch penalty applied"))

\* C13: the result's official_strength is the catalog record's, whatever the
\* mention's strength, and the log gains an "Official strength injected" entry.
C13_AuthorityOverride ==
    unit_pc = "guard_done" =>
        /\ pm_out.official_strength = pm_record.official_strength
        /\ HasEntry(pm_logs, L("Official strength injected"))

\* a mention with strength "500 mg" matched to a record of "625 mg"
C13_Witness ==
    /\ unit_pc = "guard_done"
    /\ pm_mention.strength = S_500_mg
    /\ pm_record.official_strength = S_625_mg
    /\ pm_out.official_strength = S_625_mg

NoHistoryEntry == L("Bayesian prescriber prior: no historical mapping found")

\* C14: without a requester identity, or with one that has no history row for
\* the candidate, id and score come back unchanged, the "no historical mapping
\* found" entry being logged only in the second case; with a row the score is
\* min(1.0, old + min(0.15, 0.03 * mapping_count)) and the id is unchanged;
\* a count of 4 on 0.78 gives 0.90.
C14_HistoryBoost ==
    unit_pc = "prior_done" =>
        LET old == pp_in.candidate
            absent == pp_in.prescriber_id \in {None, <<>>}
            matching == { r \in pp_in.rows :
                            r.prescriber_id = pp_in.prescriber_id
                            /\ r.medicine_id = old.id }
        IN /\ pp_out.id = old.id
           /\ absent => (pp_out.score = old.score /\ pp_logs = <<>>)
           /\ (~absent /\ matching = {}) =>
                  (pp_out.score = old.score /\ pp_logs = <<NoHistoryEntry>>)
           /\ (~absent /\ matching # {}) =>
                  /\ \E r \in matching :
                        LET raised == IF 3000 * r.mapping_count < 15000
                                      THEN old.score + 3000 * r.mapping_count
                                      ELSE old.score + 15000
                        IN pp_out.score = IF raised < 100000 THEN raised ELSE 100000
                  /\ ~HasEntry(pp_logs, NoHistoryEntry)
           /\ (~absent /\ old.score = 78000
               /\ \E r \in matching : r.mapping_count = 4) => pp_out.score = 90000

\* four prior mappings on a base score of 0.78
C14_Witness ==
    /\ unit_pc = "prior_done"
    /\ pp_in.prescriber_id = S_dr_1
    /\ pp_in.candidate.score = 78000
    /\ \E r \in pp_in.rows : r.medicine_id = pp_in.candidate.id /\ r.mapping_count = 4
    /\ pp_out.score = 90000

CacheMarker == L("Workflow short-circuited by cache hit")

\* C15: on a cache hit the cached response is returned without extraction,
\* normalization, retrieval or guardrails having run, and it differs from the
\* cached content only by one marker entry appended to the response-level log
\* and to the log of each item.
C15_CacheHitMarkerOnly ==
    (pc = "Responded" /\ cached_response # NoResponse) =>
        /\ response.status = 200
        /\ raw_ai_extracted_items = <<>>
        /\ processed_medicines = <<>>
        /\ branches = <<>>
        /\ retrieval = NoRetrieval
        /\ response.guardrail_logs = Append(cached_response.guardrail_logs, CacheMarker)
        /\ Len(response.medicines) = Len(cached_response.medicines)
        /\ \A i \in 1..Len(cached_response.medicines) :
              response.medicines[i] =
                  [cached_response.medicines[i] EXCEPT
                      !.guardrail_logs = Append(@, CacheMarker)]

\* C16: a completed request whose extraction gave N mentions answers with
\* exactly N items, the i-th being the result of the i-th mention (its
\* original_raw_input is that mention's raw_input), whatever branch each took.
C16_OrderPreserved ==
    /\ \A i \in Processed :
          /\ processed_medicines[i].original_raw_input = raw_ai_extracted_items[i].raw_input
          /\ processed_medicines[i].extracted
               = apply_pre_match_guardrails(raw_ai_extracted_items[i])
    /\ (pc = "Responded" /\ response.status = 200 /\ cached_response = NoResponse) =>
          /\ Len(response.medicines) = total_items
          /\ \A i \in 1..total_items :
                response.medicines[i].original_raw_input
                  = raw_ai_extracted_items[i].raw_input

\* a completed request of two different mentions that took different branches
C16_Witness ==
    /\ pc = "Responded"
    /\ response.status = 200
    /\ total_items = 2
    /\ raw_ai_extracted_items[1].raw_input # raw_ai_extracted_items[2].raw_input
    /\ branches[1] # branches[2]
    /\ Len(response.medicines) = 2

ProcessingEntry(i) ==
    <<"Processing medicine ">> \o IntText(i) \o <<"/">> \o IntText(total_items)

IsProcessingEntry(entry) == entry[1] = "Processing medicine "

\* the request-level log as the loop found it: lines 23, 317 and 41
RequestLogAtLoop == SubSeq(guardrail_logs, 1, 3)

\* C17: each mention's log starts with the request-level log as it stood when
\* the mention began; what is appended while mention i is processed reaches
\* neither the request-level log nor the log of another mention.
C17_LogScoping ==
    /\ (pc \in {"Start", "Normalized", "Retrieved", "Done"}) => Len(guardrail_logs) = 3
    /\ (pc = "Responded" /\ response.status = 200 /\ cached_response = NoResponse) =>
          /\ Len(guardrail_logs) = 4
          /\ response.guardrail_logs = guardrail_logs
    /\ SelectSeq(guardrail_logs, IsProcessingEntry) = <<>>
    /\ \A i \in Processed :
          /\ Len(logs_of(i)) > 4
          /\ SubSeq(logs_of(i), 1, 3) = RequestLogAtLoop
          /\ logs_of(i)[4] = ProcessingEntry(i)
          /\ SelectSeq(logs_of(i), IsProcessingEntry) = <<ProcessingEntry(i)>>
          /\ SubSeq(logs_of(i), 5, 4 + Len(pre_match_logs(raw_ai_extracted_items[i])))
               = pre_match_logs(raw_ai_extracted_items[i])
          /\ \A j \in Processed : j # i => ~HasEntry(logs_of(j), ProcessingEntry(i))

\* a completed request of two mentions, the first of which logged a
\* normalization the second one did not
C17_Witness ==
    /\ pc = "Responded"
    /\ response.status = 200
    /\ Len(response.medicines) = 2
    /\ HasEntry(response.medicines[1].guardrail_logs, L("Variant token stripped"))
    /\ ~HasEntry(response.medicines[2].guardrail_logs, L("Variant token stripped"))

\* C18: the caller receives a failure only for a request with neither image
\* nor text or for a failed extraction step; every other internal fault gives
\* a 200 response whose affected items are flagged for manual review and
\* carry an audit log.
C18_FailuresOnlyFromInputOrExtraction ==
    pc = "Responded" =>
        /\ response.status # 200 => response.detail \in {"input", "extraction"}
        /\ (response.status = 200 /\ cached_response = NoResponse) =>
              \A i \in 1..Len(response.medicines) :
                  /\ response.medicines[i].guardrail_logs # <<>>
                  /\ (\/ branches[i] \in {"NoMatch", "StaleId"}
                      \/ HasEntry(response.medicines[i].guardrail_logs, PineconeUnavailable)
                      \/ HasEntryStarting(response.medicines[i].guardrail_logs,
                                          "Pinecone returned stale id="))
                     => response.medicines[i].matched_medicine.manual_review_required

\* a word: a maximal run of letters, digits and "_" from position a to b
IsWordRun(s, a, b) ==
    /\ \A m \in a..b : IsWord(s[m])
    /\ a = 1 \/ ~IsWord(s[a - 1])
    /\ b = Len(s) \/ ~IsWord(s[b + 1])

\* digits followed by letters, nothing else
IsDigitsThenLetters(s, a, b) ==
    \E d \in a..b : /\ \A m \in a..d : IsDigit(s[m])
                    /\ \A m \in (d + 1)..b : IsAlpha(s[m])

InNumericWord(s, k) ==
    \E a \in 1..k : \E b \in k..Len(s) :
        IsWordRun(s, a, b) /\ IsDigitsThenLetters(s, a, b)

\* the text with every digit[+letters] word blanked out
WithoutNumericWords(s) ==
    [k \in 1..Len(s) |-> IF InNumericWord(s, k) THEN " " ELSE s[k]]

\* C19: without an explicit variant, the first digit run of the
\* whitespace-collapsed brand becomes the variant and "Variant token stripped"
\* is logged; the brand returned is the lowercased brand without its
\* digit[+letters] words, or the lowercased collapsed brand when nothing is
\* left; "Augmentin 625" / "Tab" / "625 mg" gives "augmentin" / "625" /
\* "tablet" / null.
C19_VariantPromotion ==
    unit_pc \in {"norm_once", "norm_twice"} =>
        LET collapsed == _normalize_spaces(nm_in.brand)
            canonical == _normalize_spaces(lower(WithoutNumericWords(collapsed)))
        IN /\ (nm_in.variant = None /\ HasDigit(collapsed)) =>
                  /\ nm_once.variant = FirstDigitRun(collapsed)
                  /\ HasEntry(nm_logs, L("Variant token stripped"))
           /\ (nm_in.variant # None \/ ~HasDigit(collapsed)) =>
                  /\ nm_once.variant = nm_in.variant
                  /\ ~HasEntry(nm_logs, L("Variant token stripped"))
           /\ nm_once.brand = IF canonical # <<>> THEN canonical ELSE lower(collapsed)
           /\ (nm_in.brand = B_Augmentin_625 /\ nm_in.variant = None
               /\ nm_in.form = S_Tab /\ nm_in.strength = S_625_mg) =>
                  /\ nm_once.brand = S_augmentin
                  /\ nm_once.variant = S_625
                  /\ nm_once.form = S_tablet
                  /\ nm_once.strength = None

\* the example of the test: "Augmentin 625", "Tab", "625 mg"
C19_Witness ==
    /\ unit_pc = "norm_once"
    /\ nm_in.brand = B_Augmentin_625
    /\ nm_in.variant = None
    /\ nm_in.form = S_Tab
    /\ nm_in.strength = S_625_mg
    /\ nm_once.brand = S_augmentin
    /\ nm_once.variant = S_625
    /\ HasEntry(nm_logs, L("Variant token stripped"))

WellFormedResult(item) ==
    /\ item.matched_medicine.clinical_risk_tier \in RiskTiers
    /\ item.matched_medicine.final_similarity_score \in 0..One
    /\ item.matched_medicine.brand_name # <<>>
    /\ item.guardrail_logs # <<>>

\* C20: whether its external calls return or fail, a mention's run goes from
\* Start to Normalized to Retrieved, then takes exactly one of NoMatch, StaleId
\* and Matched (the last two only for a candidate that was looked up in the
\* catalog) and ends Done with a well-formed result and a non-empty log.
C20_MentionStateMachine ==
    [][ /\ pc = "Start" => pc' \in {"Start", "Normalized"}
        /\ pc = "Normalized" => pc' \in {"Normalized", "Retrieved"}
        /\ pc = "Retrieved" => pc' \in {"Retrieved", "Done"}
        /\ pc' = "Done" =>
              /\ pc \in {"Retrieved", "Done"}
              /\ Len(branches') = index
              /\ branches'[index] \in {"NoMatch", "StaleId", "Matched"}
              /\ branches'[index] = "NoMatch" <=> candidates'[index].id = NO_MATCH_ID
              /\ Len(processed_medicines') = index
              /\ WellFormedResult(processed_medicines'[index])
      ]_vars

HistoryApplied == "Bayesian prescriber prior applied: +"
HistoryNotFound == "Bayesian prescriber prior: no historical mapping found"
HasHistoryEntry(logs) ==
    HasEntryStarting(logs, HistoryApplied) \/ HasEntryStarting(logs, HistoryNotFound)

\* C21: the history lookup is made only for a candidate whose id has resolved
\* against the catalog: the log of a mention that has only been retrieved holds
\* no history entry, and neither does the log of a mention that ended NoMatch
\* or StaleId.
C21_HistoryOnlyAfterResolution ==
    /\ pc = "Retrieved" => ~HasHistoryEntry(item_guardrail_logs)
    /\ \A i \in Processed :
          branches[i] \in {"NoMatch", "StaleId"} => ~HasHistoryEntry(logs_of(i))

VariantSeparationEnforced ==
    L("Variant separation enforced: extracted strength cleared to prevent hallucinated mapping")

RowsContaining(term, rows) ==
    { id \in rows : \/ Contains(lower(SAMPLE_MEDICINES[id].brand_name), term)
                    \/ Contains(lower(SAMPLE_MEDICINES[id].generic_name), term) }

LongTokens(tokens) == SelectSeq(tokens, LAMBDA t : Len(t) > 3)

\* the full lowercased brand, the generic name, the brand's words of more than
\* 3 characters
TermsInOrder(mention) ==
    (IF Truthy(mention.brand) THEN <<lower(mention.brand)>> ELSE <<>>)
    \o (IF Truthy(mention.generic_name) THEN <<lower(mention.generic_name)>> ELSE <<>>)
    \o LongTokens(split(lower(OrEmpty(mention.brand))))

\* the position of the first term with a row containing it, or 0
FirstHit(terms, rows) ==
    IF \E k \in 1..Len(terms) : RowsContaining(terms[k], rows) # {}
    THEN CHOOSE k \in 1..Len(terms) :
             /\ RowsContaining(terms[k], rows) # {}
             /\ \A j \in 1..(k - 1) : RowsContaining(terms[j], rows) = {}
    ELSE 0

LowestId(ids) == CHOOSE id \in ids : \A other \in ids : id <= other

\* C23: the local fallback takes the terms in the order full lowercased brand,
\* generic name, brand words of more than 3 characters; the first term that
\* some row's brand_name or generic_name contains decides: the candidate is
\* the lowest-id such row with score 0.78 and provenance naming that term, and
\* no term is queried after it; when no term is contained in any row the
\* sentinel is returned.
C23_FallbackFirstHit ==
    unit_pc = "fallback_done" =>
        LET terms == TermsInOrder(fb_in.extracted)
            k == FirstHit(terms, fb_in.records)
        IN /\ k = 0 => fb_out.id = NO_MATCH_ID
           /\ k # 0 =>
                /\ fb_out.id = LowestId(RowsContaining(terms[k], fb_in.records))
                /\ fb_out.score = FallbackScore
                /\ fb_out.metadata = <<"sqlite_fallback", terms[k]>>
                /\ fb_queried # <<>>
                /\ fb_queried[Len(fb_queried)] = terms[k]
                /\ \A j \in 1..(Len(fb_queried) - 1) :
                      RowsContaining(fb_queried[j], fb_in.records) = {}

EncoderGlobal(encoder) == IF encoder = "dense" THEN dense_model ELSE sparse_encoder

\* C24: over any series of calls each encoder is constructed successfully at
\* most once, and after a constructor call that failed the constructor is not
\* called again and the encoder stays unavailable.
C24_EncodersInitializedOnce ==
    \A encoder \in {"dense", "sparse"} :
        LET calls == { i \in 1..Len(enc_events) : enc_events[i].encoder = encoder }
            failed == { i \in calls : enc_events[i].constructed /\ ~enc_events[i].ok }
        IN /\ Cardinality({ i \in calls : enc_events[i].ok }) <= 1
           /\ \A i \in failed :
                 /\ \A j \in calls : j > i => ~enc_events[j].constructed
                 /\ EncoderGlobal(encoder) = "None"

PineconeExecuted == L("Pinecone async hybrid query executed")
FallbackSelected == L("Hybrid retrieval fallback: SQLite candidate selected")

\* C25: a mention's log holds "Pinecone async hybrid query executed" exactly
\* when its candidate came from the vector index and "Hybrid retrieval
\* fallback: SQLite candidate selected" exactly when the local fallback chose
\* a catalog row, and never both.
C25_TierEntryNamesSupplier ==
    \A i \in Processed :
        /\ HasEntry(logs_of(i), PineconeExecuted)
             <=> (candidates[i].metadata[1] = "pinecone")
        /\ HasEntry(logs_of(i), FallbackSelected)
             <=> (candidates[i].metadata[1] = "sqlite_fallback")
        /\ ~(HasEntry(logs_of(i), PineconeExecuted) /\ HasEntry(logs_of(i), FallbackSelected))

\* C26: every candidate query_top_candidate returns other than the sentinel
\* was a row of the catalog at retrieval, and the mention takes the StaleId
\* branch exactly when that row has been removed between retrieval and
\* resolution; with the catalog unchanged in between, StaleId is not taken.
C26_StaleIdOnlyAfterRemoval ==
    [][ (pc = "Retrieved" /\ pc' = "Done") =>
          /\ top_candidate.id # NO_MATCH_ID => top_candidate.id \in retrieval.records
          /\ (branches'[Len(branches')] = "StaleId")
               <=> (top_candidate.id \in retrieval.records /\ top_candidate.id \notin catalog)
          /\ catalog = retrieval.records => branches'[Len(branches')] # "StaleId"
      ]_vars

\* a mention ended StaleId after the row of its candidate was removed, and
\* another mention of the request was resolved
C26_Witness ==
    /\ deletes = 1
    /\ \E i \in Processed :
          /\ branches[i] = "StaleId"
          /\ candidates[i].id \in RecordIds \ catalog
    /\ \E i \in Processed : branches[i] = "Matched"

mention_of(i) == processed_medicines[i].extracted

\* C27: a Matched result carries the id, brand_name, generic_name,
\* official_strength and combination_flag of the catalog row whose id is the
\* candidate's id; a NoMatch or StaleId result has id 0, combination_flag
\* false, score 0.0 and the mention's own brand, generic name, strength and
\* form (or "unknown"), nothing of a catalog row.
C27_GroundedFieldsFromCatalog ==
    \A i \in Processed :
        /\ branches[i] = "Matched" =>
             /\ candidates[i].id \in RecordIds
             /\ matched_of(i).id = candidates[i].id
             /\ matched_of(i).brand_name = SAMPLE_MEDICINES[candidates[i].id].brand_name
             /\ matched_of(i).generic_name = SAMPLE_MEDICINES[candidates[i].id].generic_name
             /\ matched_of(i).official_strength
                  = SAMPLE_MEDICINES[candidates[i].id].official_strength
             /\ matched_of(i).combination_flag
                  = SAMPLE_MEDICINES[candidates[i].id].combination_flag
        /\ branches[i] \in {"NoMatch", "StaleId"} =>
             /\ matched_of(i).id = 0
             /\ matched_of(i).combination_flag = FALSE
             /\ matched_of(i).final_similarity_score = 0
             /\ matched_of(i).brand_name = OrUnknown(mention_of(i).brand)
             /\ matched_of(i).generic_name = OrUnknown(mention_of(i).generic_name)
             /\ matched_of(i).official_strength = OrUnknown(mention_of(i).strength)
             /\ matched_of(i).form = OrUnknown(mention_of(i).form)

\* a Matched result whose brand and strength differ from the mention's, next
\* to a StaleId result that kept the mention's brand although its candidate
\* named a catalog row
C27_Witness ==
    /\ \E i \in Processed :
          /\ branches[i] = "Matched"
          /\ matched_of(i).brand_name # mention_of(i).brand
          /\ matched_of(i).official_strength # OrUnknown(mention_of(i).strength)
          /\ matched_of(i).combination_flag
    /\ \E i \in Processed :
          /\ branches[i] = "StaleId"
          /\ candidates[i].id \in RecordIds
          /\ matched_of(i).brand_name = mention_of(i).brand
          /\ matched_of(i).brand_name # SAMPLE_MEDICINES[candidates[i].id].brand_name

VariantPenaltyApplied == L("Variant mismatch penalty applied")

\* C28: a mention whose variant occurs verbatim in the record's brand_name,
\* a fraction such as "500/125" in "Amoxiclav 500/125" included, gets no
\* variant penalty from apply_post_match_guardrails.
C28_VerbatimVariantUnpenalised ==
    unit_pc = "guard_done" =>
        ((MentionHasVariant(pm_mention)
          /\ Contains(pm_record.brand_name, strip(pm_mention.variant))) =>
            ~HasEntry(pm_logs, VariantPenaltyApplied))

\* C29: the placeholder brand "unknown" is never a term the local fallback
\* queries the catalog for, neither as the full brand nor as one of its words.
C29_UnknownNeverQueried ==
    unit_pc = "fallback_done" =>
        (lower(fb_in.extracted.brand) = S_unknown =>
            /\ \A k \in 1..Len(search_terms(fb_in.extracted)) :
                  search_terms(fb_in.extracted)[k] # S_unknown
            /\ \A k \in 1..Len(fb_queried) : fb_queried[k] # S_unknown)

BothPenaltiesApplied ==
    /\ HasEntry(pm_logs, VariantPenaltyApplied)
    /\ db_variant(pm_record) # <<>>
    /\ HasEntry(pm_logs, L("Form mismatch penalty applied"))

\* C30: whatever the candidate's score, a mention that incurs the 0.35 variant
\* penalty and the 0.30 form penalty ends Low with manual review; and a
\* candidate at the fallback score 0.78 plus any history boost up to 0.15 that
\* incurs the 0.35 variant penalty ends Low with manual review.
C30_PenalisedEndsLow ==
    unit_pc = "guard_done" =>
        /\ BothPenaltiesApplied =>
              /\ pm_out.clinical_risk_tier = "Low"
              /\ pm_out.manual_review_required
        /\ (pm_start \in FallbackScore..(FallbackScore + MaxBoost)
            /\ HasEntry(pm_logs, VariantPenaltyApplied)
            /\ db_variant(pm_record) # <<>>) =>
              /\ pm_out.clinical_risk_tier = "Low"
              /\ pm_out.manual_review_required

=============================================================================
